---- MODULE Spec2Model ----
(***************************************************************************)
(* State-machine model of the content production loop                      *)
(* (core/content_agent.py run_production_loop), its evaluators             *)
(* (core/safety.py, core/quality.py), the metrics logger (core/metrics.py) *)
(* and the entry point that drives it (core/pipeline.py, mcp_server.py).   *)
(*                                                                         *)
(* Conventions.                                                            *)
(*  - Python None is the empty tuple <<>>, a present value v is <<v>>.      *)
(*  - Floats in [0,1] (similarity, uniqueness, thresholds) are integers in *)
(*    hundredths: 0.4 is 40, 0.6 is 60.                                    *)
(*  - Korean phrases are written romanised, TLA+ strings being ASCII.      *)
(*  - A text is abstracted to what the evaluators read from it: the set of *)
(*    watched phrases it contains, its number of numeric tokens and its    *)
(*    number of keyword-bearing paragraphs.                                *)
(*  - A message (reason / feedback string) is a record: its kind, the      *)
(*    numbers formatted into it and the phrases listed in it.              *)
(***************************************************************************)
EXTENDS Integers, Sequences, FiniteSets, TLC

(* ------------------------------ bounds -------------------------------- *)
\* largest max_retries a direct call of run_production_loop is given
MaxRetries == 3
\* largest max_attempts a run_case_pipeline request is given
MaxPipelineAttempts == 2
\* largest number of numeric tokens in a generated text
MaxNumbers == 8
\* largest number of keyword-bearing paragraphs in a generated text
MaxBlocks == 3

(* ------------------------- program constants -------------------------- *)
DEFAULT_SIMILARITY_THRESHOLD == 40
DEFAULT_MIN_PUI == 80
\* max_retries passed by pipeline.run_case
PIPELINE_MAX_RETRIES == 3
\* uniqueness gate 0.6 and unique-block gate 3 of the loop
MIN_UNIQUENESS == 60
MIN_UNIQUE_BLOCKS == 3
\* number of positional parameters of metrics.log_case_result without default
METRICS_REQUIRED_ARGS == 15
\* number of parameters of metrics.log_case_result
METRICS_MAX_ARGS == 16

(* ------------------------------ values -------------------------------- *)
None == <<>>
Some(v) == <<v>>
Min(a, b) == IF a <= b THEN a ELSE b
Max(a, b) == IF a >= b THEN a ELSE b

Msg(kind, nums, words) == [kind |-> kind, nums |-> nums, words |-> words]
\* the empty string
EmptyMsg == Msg("", <<>>, <<>>)
\* Python truthiness of a string
Truthy(m) == m.kind # ""
\* Python `a or b` on strings
OrElse(m, dflt) == IF Truthy(m) THEN m ELSE dflt

(* ------------------------- watched phrases ---------------------------- *)
\* safety.RED_FLAGS: 100% hoesu, mujogeon seungso, bojanghamnida,
\* jeonmun byeonhosa, daerihae deurimnida, chaegimjimnida
RED_FLAGS ==
    <<"100% hoesu", "mujogeon seungso", "bojanghamnida",
      "jeonmun byeonhosa", "daerihae deurimnida", "chaegimjimnida">>

\* safety.SOFT_FLAGS
SOFT_FLAGS ==
    <<"seungso ganeungseong-i nopseumnida", "hwaksilhi badeul su itseumnida",
      "beomnyul jamun", "beomnyul sangdam", "bojangdoen gyeolgwa",
      "bandeusi", "jeoldae", "mujogeon">>

\* The watched phrases that phrase q contains as substrings (q included).
Sub(q) ==
    CASE q = "100% hoesu" -> {"100% hoesu", "100%", "%"}
      [] q = "mujogeon seungso" -> {"mujogeon seungso", "mujogeon", "seungso"}
      [] q = "seungso ganeungseong-i nopseumnida" ->
             {"seungso ganeungseong-i nopseumnida", "seungso"}
      [] q = "beomnyul jamun-i anibnida" ->
             {"beomnyul jamun-i anibnida", "beomnyul jamun"}
      [] q = "100%" -> {"100%", "%"}
      [] OTHER -> {q}

\* `phrase in text.lower()`
Contains(text, phrase) == \E q \in text.marks : phrase \in Sub(q)

Text(marks, numbers, blocks) ==
    [marks |-> marks, numbers |-> numbers, blocks |-> blocks]

(* --------------------------- core/safety.py --------------------------- *)
\* what happens inside _llm_soft_check: ev.kind is "config_error" (reading
\* Config raises), "client_error" (OpenAI(...) raises), "network_error" (the
\* completion call raises), "non_json", or "json" with the parsed value
\* ev.json: an object (ev.object holds its keys), "empty_object", a truthy
\* value that is not an object ("non_object") or a falsy one ("falsy").
LLMEvent(kind, json, object) == [kind |-> kind, json |-> json, object |-> object]

LLM(status, reason, refined_content) ==
    [status |-> status, reason |-> reason, refined_content |-> refined_content]

NoObject == LLM("", EmptyMsg, None)

\* the value _llm_soft_check returns, or the exception it lets through
Returned(json, object) == [raised |-> None, json |-> json, object |-> object]
Raised(exc) == [raised |-> Some(exc), json |-> "none", object |-> NoObject]

\* the client is constructed outside the try blocks: its error propagates
_llm_soft_check(ev) ==
    IF ev.kind = "config_error" THEN Returned("none", NoObject)
    ELSE IF ev.kind = "client_error" THEN Raised("OpenAIError")
    ELSE IF ev.kind \in {"network_error", "non_json"} THEN Returned("none", NoObject)
    ELSE Returned(ev.json, ev.object)

\* `if llm_result:` of review_content
LLMTruthy(json) == json \in {"object", "non_object"}

Verdict(status, risk_score, reason, refined_content, stage) ==
    [status |-> status, risk_score |-> risk_score, reason |-> reason,
     refined_content |-> refined_content, stage |-> stage, raised |-> None]

\* review_content raised instead of returning a verdict
NoVerdict(exc) ==
    [status |-> "", risk_score |-> 0, reason |-> EmptyMsg,
     refined_content |-> None, stage |-> "llm", raised |-> exc]

\* mutant of review_content: the soft stage is tested before the hard stage
review_content_soft_first(text, ev) ==
    LET hard_hits == SelectSeq(RED_FLAGS, LAMBDA f : Contains(text, f))
        soft_hits == SelectSeq(SOFT_FLAGS, LAMBDA f : Contains(text, f))
    IN  IF soft_hits # <<>> THEN
            Verdict("EDIT", 60, Msg("soft_flags", <<>>, soft_hits), None, "soft")
        ELSE IF hard_hits # <<>> THEN
            Verdict("DISCARD", 90, Msg("hard_flags", <<>>, hard_hits), None, "hard")
        ELSE Verdict("PASS", 5, Msg("soft check skipped", <<>>, <<>>), None, "skipped")

\* mutant of review_content: the soft stage falls through to the collaborator
review_content_soft_open(text, ev) ==
    LET hard_hits == SelectSeq(RED_FLAGS, LAMBDA f : Contains(text, f))
        r == _llm_soft_check(ev)
    IN  IF hard_hits # <<>> THEN
            Verdict("DISCARD", 90, Msg("hard_flags", <<>>, hard_hits), None, "hard")
        ELSE IF r.raised = None /\ r.json = "object" /\ r.object.status = "EDIT" THEN
            Verdict("EDIT", 55, r.object.reason, r.object.refined_content, "llm")
        ELSE Verdict("PASS", 5, Msg("soft check skipped", <<>>, <<>>), None, "skipped")

\* mutant of review_content: an unexpected collaborator status is kept
review_content_keeps_status(text, ev) ==
    LET hard_hits == SelectSeq(RED_FLAGS, LAMBDA f : Contains(text, f))
        soft_hits == SelectSeq(SOFT_FLAGS, LAMBDA f : Contains(text, f))
        r == _llm_soft_check(ev)
    IN  IF hard_hits # <<>> THEN
            Verdict("DISCARD", 90, Msg("hard_flags", <<>>, hard_hits), None, "hard")
        ELSE IF soft_hits # <<>> THEN
            Verdict("EDIT", 60, Msg("soft_flags", <<>>, soft_hits), None, "soft")
        ELSE IF r.raised # None THEN NoVerdict(r.raised)
        ELSE IF r.json = "non_object" THEN NoVerdict(Some("AttributeError"))
        ELSE IF r.json = "object" THEN
            Verdict(r.object.status, 5, r.object.reason, r.object.refined_content, "llm")
        ELSE Verdict("PASS", 5, Msg("soft check skipped", <<>>, <<>>), None, "skipped")

\* review_content: ev is what happens inside _llm_soft_check if it is called
review_content(text, ev) ==
    LET hard_hits == SelectSeq(RED_FLAGS, LAMBDA f : Contains(text, f))
        soft_hits == SelectSeq(SOFT_FLAGS, LAMBDA f : Contains(text, f))
        r == _llm_soft_check(ev)
    IN  IF hard_hits # <<>> THEN
            Verdict("DISCARD", 90, Msg("hard_flags", <<>>, hard_hits), None, "hard")
        ELSE IF soft_hits # <<>> THEN
            Verdict("EDIT", 60, Msg("soft_flags", <<>>, soft_hits), None, "soft")
        ELSE IF r.raised # None THEN NoVerdict(r.raised)
        ELSE IF LLMTruthy(r.json) THEN
            \* llm_result.get: a value that is not a dict has no get
            IF r.json # "object" THEN NoVerdict(Some("AttributeError"))
            ELSE IF r.object.status = "DISCARD" THEN
                Verdict("DISCARD", 85, r.object.reason, r.object.refined_content, "llm")
            ELSE IF r.object.status = "EDIT" THEN
                Verdict("EDIT", 55, r.object.reason, r.object.refined_content, "llm")
            ELSE
                Verdict("PASS", 5, OrElse(r.object.reason, Msg("LLM pass", <<>>, <<>>)),
                        None, "llm")
        ELSE
            Verdict("PASS", 5, Msg("soft check skipped", <<>>, <<>>), None, "skipped")

\* mutant of NeedsLLM: the collaborator is consulted for every text
NeedsLLM_always(text) == text = text

\* whether review_content reaches the semantic stage for this text
NeedsLLM(text) ==
    /\ \A i \in 1..Len(RED_FLAGS) : ~Contains(text, RED_FLAGS[i])
    /\ \A i \in 1..Len(SOFT_FLAGS) : ~Contains(text, SOFT_FLAGS[i])

(* -------------------------- core/quality.py --------------------------- *)
\* mutant of compute_uniqueness_score: the similarity is not clamped
compute_uniqueness_score_unclamped(max_similarity) == 100 - max_similarity

compute_uniqueness_score(max_similarity) ==
    100 - Max(0, Min(100, max_similarity))

\* the planning keywords count_unique_blocks searches the paragraphs for
PlanningKeywords(pi) ==
    {pi[k] : k \in {"main_keyword", "unique_data_point", "legal_strategy",
                    "relationship", "user_intent", "structure_type"}} \ {""}

\* text.blocks is the number of paragraphs bearing a planning keyword
count_unique_blocks(text, pi) ==
    IF PlanningKeywords(pi) = {} THEN 0 ELSE text.blocks

\* mutant of NumberPoints: the numeric tokens are not capped
NumberPointsUncapped(n) == n * 2

\* data_score += min(len(numbers) * 2, 15)
NumberPoints(n) == Min(n * 2, 15)

compute_pui_score(text, pi, safety_status) ==
    LET intent == pi.user_intent
        structure == pi.structure_type
        s1 == IF intent = "gyesan" /\ Contains(text, "tl;dr") THEN 10 ELSE 0
        s2 == IF intent = "haengdong-yudo"
                  /\ (Contains(text, "dangye") \/ Contains(text, "1.")
                      \/ Contains(text, "2."))
              THEN 10 ELSE 0
        s3 == IF intent = "jeongbo-tamsaek"
                  /\ (Contains(text, "sarye") \/ Contains(text, "seutori"))
              THEN 8 ELSE 0
        s4 == IF structure = "TYPE_A"
                  /\ (Contains(text, "yoyak") \/ Contains(text, "tl;dr"))
              THEN 6 ELSE 0
        s5 == IF structure = "TYPE_B"
                  /\ (Contains(text, "sarye") \/ Contains(text, "seutori"))
              THEN 6 ELSE 0
        s6 == IF structure = "TYPE_C"
                  /\ (Contains(text, "faq") \/ Contains(text, "chekeuriseuteu"))
              THEN 6 ELSE 0
        structure_score == Min(s1 + s2 + s3 + s4 + s5 + s6, 40)
        d1 == NumberPoints(text.numbers)
        d2 == IF pi.unique_data_point # ""
                  /\ Contains(text, pi.unique_data_point) THEN 8 ELSE 0
        d3 == IF pi.legal_strategy # ""
                  /\ Contains(text, pi.legal_strategy) THEN 6 ELSE 0
        d4 == IF Contains(text, "%") \/ Contains(text, "ija") THEN 4 ELSE 0
        data_score == Min(d1 + d2 + d3 + d4, 35)
        e1 == IF Contains(text, "beomnyul jamun-i anibnida") THEN 6 ELSE 0
        e2 == IF Contains(text, "jeonmungawa sangui")
                  \/ Contains(text, "jeonmungawa sangdam") THEN 6 ELSE 0
        e3 == IF safety_status = "PASS" THEN 6 ELSE 0
        e4 == IF ~Contains(text, "mujogeon") /\ ~Contains(text, "100%")
                  /\ ~Contains(text, "seungso") THEN 4 ELSE 0
        eeat_score == Min(e1 + e2 + e3 + e4, 25)
    IN  [total |-> Min(100, structure_score + data_score + eeat_score),
         structure_score |-> structure_score,
         data_score |-> data_score,
         eeat_score |-> eeat_score]

(* -------------------------- core/metrics.py --------------------------- *)
\* Binding the positional arguments of a call to log_case_result's
\* parameters: Python raises TypeError when a required parameter is missing.
log_case_result_binds(args) ==
    /\ Len(args) >= METRICS_REQUIRED_ARGS
    /\ Len(args) <= METRICS_MAX_ARGS

\* `x or ""` / `x if x is not None else ""` of a row cell
Cell(opt) == opt

\* the row log_case_result appends for a call whose arguments bind
log_case_result(args) ==
    [slug |-> args[2],
     status |-> args[3],
     reason |-> IF args[4] = None THEN EmptyMsg ELSE args[4][1],
     safety_status |-> Cell(args[5]),
     similarity_score |-> Cell(args[6]),
     uniqueness_score |-> Cell(args[7]),
     unique_block_count |-> Cell(args[8]),
     word_count |-> IF args[9] = Some(0) THEN None ELSE Cell(args[9]),
     pui_total |-> Cell(args[10]),
     pui_structure |-> Cell(args[11]),
     pui_data |-> Cell(args[12]),
     pui_eeat |-> Cell(args[13])]

(* ---------------------------- core/db.py ------------------------------ *)
\* UPDATE cases SET status=?, batch_date=? WHERE case_id=?  (batch_date
\* defaults to None); a missing row is left missing.
update_status(row, status) ==
    IF row = None THEN None
    ELSE Some([row[1] EXCEPT !.status = status, !.batch_date = None])

(* ----------------------- core/content_agent.py ------------------------ *)
Doc(slug, structure_type, text) ==
    [slug |-> slug, structure_type |-> structure_type, text |-> text]

\* mutant of _inject_slug: the case's slug replaces the document's
_inject_slug_overwrites(content, slug) ==
    IF slug = "" THEN content ELSE [content EXCEPT !.slug = slug]

\* _inject_slug(content, slug): the case's slug fills an absent doc slug
_inject_slug(content, slug) ==
    IF slug = "" THEN content
    ELSE IF content.slug = "" THEN [content EXCEPT !.slug = slug]
    ELSE content

\* the structure_type of the planning info is stamped when the key is absent
StampStructure(content, pi) ==
    IF pi.structure_type # "" /\ content.structure_type = None
    THEN [content EXCEPT !.structure_type = Some(pi.structure_type)]
    ELSE content

\* planning_info built from the case row; the cases table has no
\* unique_data_point and no main_keyword column, so both read as None
planning_info(case_row) ==
    [user_intent |-> case_row.user_intent,
     structure_type |-> case_row.structure_type,
     relationship |-> case_row.relationship,
     legal_strategy |-> case_row.legal_strategy,
     unique_data_point |-> "",
     main_keyword |-> ""]

safe_mode(case_row) == case_row.category = "test"

\* len(joined.split()), on the abstract text: its counted tokens
WordCount(text) == text.numbers + Cardinality(text.marks)

\* mutant of SlugOr: the slug of the case row is preferred
\* SlugOr: `content.get("page_meta", {}).get("slug") or case_row.get("slug") or ""`
SlugOrCaseFirst(content, case_row) ==
    IF case_row.slug # "" THEN case_row.slug ELSE content.slug

SlugOr(content, case_row) ==
    IF content.slug # "" THEN content.slug ELSE case_row.slug

\* f"public/{slug}.html" if slug else ""
HtmlPath(slug) == IF slug # "" THEN "public/" \o slug \o ".html" ELSE ""

PuiField(pui_scores, f) ==
    IF pui_scores = None THEN None ELSE Some(pui_scores[1][f])

\* mutant of needs_refine_uniqueness: the unique-block count is not gated
needs_refine_uniqueness_no_blocks(uniq, blocks) == uniq < MIN_UNIQUENESS

\* needs_refine_similarity / needs_refine_uniqueness
needs_refine_similarity(sim, threshold) == sim > threshold
needs_refine_uniqueness(uniq, blocks) ==
    uniq < MIN_UNIQUENESS \/ blocks < MIN_UNIQUE_BLOCKS

\* mutant of pui_too_low: a total equal to min_pui fails the gate
pui_too_low_at_threshold(total, min_pui) == total <= min_pui

\* the PUI gate
\* mutant of pui_too_low: the comparison is inverted
pui_too_low_inverted(total, min_pui) == total >= min_pui

pui_too_low(total, min_pui) == total < min_pui

\* mutant of safety_rejects: an EDIT verdict passes the gate
safety_rejects_discard_only(status) == status = "DISCARD"

\* the safety gate of the loop
safety_rejects(status) == status \in {"EDIT", "DISCARD"}

\* `attempt >= max_retries`: the attempt is the last permitted one
IsLastAttempt(attempt, max_retries) == attempt >= max_retries

\* mutant of QualityFeedback: the uniqueness comparison comes first
QualityFeedbackUniquenessFirst(sim, threshold, uniq, blocks) ==
    LET p1 == IF needs_refine_similarity(sim, threshold)
              THEN <<"yusado">> ELSE <<>>
        p2 == IF needs_refine_uniqueness(uniq, blocks)
              THEN <<"yunikeudo">> ELSE <<>>
    IN  Msg("quality", <<sim, threshold, uniq, blocks>>, p2 \o p1 \o <<"diversify">>)

\* feedback of a similarity/uniqueness failure that is retried
QualityFeedback(sim, threshold, uniq, blocks) ==
    LET p1 == IF needs_refine_similarity(sim, threshold)
              THEN <<"yusado">> ELSE <<>>
        p2 == IF needs_refine_uniqueness(uniq, blocks)
              THEN <<"yunikeudo">> ELSE <<>>
    IN  Msg("quality", <<sim, threshold, uniq, blocks>>, p1 \o p2 \o <<"diversify">>)

PuiFeedback(total, min_pui) == Msg("pui", <<total, min_pui>>, <<>>)

\* mutant of RenderError: the feedback is the bare exception text
RenderErrorBare(detail) == Msg(detail, <<>>, <<>>)

RenderError(detail) == Msg("render_error", <<>>, <<detail>>)

(* ------------------------------ inputs -------------------------------- *)
CaseRow(slug, category, user_intent, structure_type, legal_strategy) ==
    [slug |-> slug, category |-> category, user_intent |-> user_intent,
     structure_type |-> structure_type, relationship |-> "",
     legal_strategy |-> legal_strategy,
     status |-> "todo", batch_date |-> Some("2025-01-01")]

\* the row of the requested case in the cases table: missing, a planned
\* debt case with or without slug, an unplanned case, the dummy test case
CasePool ==
    {None,
     Some(CaseRow("case-slug", "debt", "gyesan", "TYPE_A", "jigeupmyeongnyeong")),
     Some(CaseRow("", "debt", "gyesan", "TYPE_A", "jigeupmyeongnyeong")),
     Some(CaseRow("plain-slug", "debt", "", "", "")),
     Some(CaseRow("test-freelancer-unpaid", "test", "", "", ""))}

\* the cases run_case_pipeline requests are modelled for: the wrapper reads
\* only the status of each run's result, and the runs of the other cases are
\* those of a direct call with max_retries = PIPELINE_MAX_RETRIES
PipelineCasePool ==
    {None, Some(CaseRow("test-freelancer-unpaid", "test", "", "", ""))}

\* config.json: absent (the defaults) or setting both thresholds
Configs ==
    {[similarity_threshold |-> DEFAULT_SIMILARITY_THRESHOLD, min_pui |-> DEFAULT_MIN_PUI],
     [similarity_threshold |-> DEFAULT_SIMILARITY_THRESHOLD, min_pui |-> 57]}

RichMarks == {"tl;dr", "%", "jigeupmyeongnyeong", "jeonmungawa sangdam"}

\* texts the generator may return
GenTexts ==
    {Text({"mujogeon seungso"}, 0, MaxBlocks),
     Text({"beomnyul jamun-i anibnida"}, 0, MaxBlocks),
     Text({}, 0, MaxBlocks),
     Text(RichMarks, MaxNumbers, MaxBlocks - 1),
     Text(RichMarks, MaxNumbers, MaxBlocks)}

\* documents the generator may return
GenDocs ==
    {Doc("", None, t) : t \in GenTexts}
    \cup {Doc("doc-slug", Some("TYPE_B"), Text(RichMarks, MaxNumbers, MaxBlocks))}

\* writer_client.SAFE_TEST_TEXT with the case's slug copied in
SafeTestDoc(case_row) ==
    Doc(case_row.slug, None, Text({"faq", "beomnyul jamun-i anibnida"}, 6, 1))

\* the objects the collaborator may answer with
LLMResults ==
    {LLM("PASS", Msg("llm reason", <<>>, <<>>), None),
     LLM("PASS", EmptyMsg, Some("refined text")),
     LLM("MAYBE", EmptyMsg, None),
     LLM("EDIT", EmptyMsg, None),
     LLM("EDIT", Msg("llm reason", <<>>, <<>>), Some("refined text")),
     LLM("DISCARD", Msg("llm reason", <<>>, <<>>), None),
     LLM("DISCARD", EmptyMsg, Some("refined text"))}

\* the ways the collaborator can fail or be unavailable
LLMFailures ==
    {LLMEvent(k, "none", NoObject) :
        k \in {"config_error", "client_error", "network_error", "non_json"}}
    \cup {LLMEvent("json", j, NoObject) : j \in {"empty_object", "non_object", "falsy"}}

\* what can happen inside _llm_soft_check
LLMEvents == LLMFailures \cup {LLMEvent("json", "object", r) : r \in LLMResults}

\* _llm_soft_check is not called
NoLLMCall == LLMEvent("not_called", "none", NoObject)

\* similarities the corpus may give a text
SimValues == {0, 40, 41}

(* ------------------------------- state -------------------------------- *)
VARIABLES
    req,      \* the request: entry point and its arguments
    cfg,      \* config.json thresholds
    store,    \* the cases-table row of the requested case (None: no row)
    pipe,     \* run_case_pipeline's loop: iterations started, last_result
    pc,       \* position in the program
    loc,      \* run_production_loop's locals
    result,   \* what the current run_production_loop call returned
    env,      \* effects: status writes, metrics rows, rendered artifacts
    obs       \* the current run's collaborator calls: generator call counts,
              \* the collaborators called, the calls of the semantic
              \* collaborator in the latest review, the stages of the attempt,
              \* the kind of failure of each failed attempt
VARIABLES
    q,        \* one application of a function of core/quality.py: its
              \* inputs and, once applied, its result
    mfile     \* logs/content_metrics.csv shared by concurrent loop
              \* instances, and each instance's position in log_case_result
VARIABLES
    plan      \* one call of planner.suggest_new_cases: its seeds, limit and
              \* per-band maximum, the band counts, the results so far

LoopVars == <<req, cfg, store, pipe, pc, loc, result, env, obs>>
vars == <<req, cfg, store, pipe, pc, loc, result, env, obs, q, mfile, plan>>

\* no function application under way / the log file of a single instance
QIdle == [op |-> "idle"]
MIdle == [op |-> "idle"]
PIdle == [op |-> "idle"]

NoResult == [status |-> "none", reason |-> None, html_path |-> None, attempts |-> None]
Outcome(status, reason) ==
    [status |-> status, reason |-> Some(reason), html_path |-> None, attempts |-> None]
Published(html_path, attempts) ==
    [status |-> "published", reason |-> None,
     html_path |-> Some(html_path), attempts |-> Some(attempts)]

InitLoc(max_retries) ==
    [max_retries |-> max_retries, attempt |-> 0, content |-> None,
     last_feedback |-> EmptyMsg, last_content |-> None,
     similarity_score |-> None, uniqueness_score |-> None,
     unique_block_count |-> None, pui_scores |-> None, safety_status |-> None,
     safety_result |-> None]

InitObs ==
    [generate |-> 0, refine |-> 0, called |-> {}, llm_calls |-> 0, stages |-> <<>>,
     refine_args |-> None, failures |-> <<>>]

InitEnv == [statusWrites |-> <<>>, metricsLog |-> <<>>, rendered |-> <<>>, raised |-> None]

Init ==
    /\ req \in {[entry |-> "run_production_loop", max_retries |-> n, max_attempts |-> 0] :
                    n \in 0..MaxRetries}
          \cup {[entry |-> "run_case_pipeline", max_retries |-> PIPELINE_MAX_RETRIES,
                 max_attempts |-> n] : n \in 0..MaxPipelineAttempts}
    /\ cfg \in Configs
    /\ store \in (IF req.entry = "run_case_pipeline" THEN PipelineCasePool ELSE CasePool)
    /\ pipe = [i |-> 0, last_result |-> NoResult, runs |-> 0]
    /\ pc = "entry"
    /\ loc = InitLoc(0)
    /\ result = NoResult
    /\ env = InitEnv
    /\ obs = InitObs
    /\ q = QIdle
    /\ mfile = MIdle
    /\ plan = PIdle

(* ------------------------ run_production_loop ------------------------- *)
\* the document of an attempt, as it is handed to a later refinement
ContentOf(attempt, what) == Some([attempt |-> attempt, what |-> what])

\* mutant of ContinueLoop: the range runs one attempt past max_retries
ContinueLoopPastBound(l) ==
    IF l.attempt <= l.max_retries
    THEN /\ pc' = "generate"
         /\ loc' = [l EXCEPT !.attempt = @ + 1, !.content = None]
    ELSE /\ pc' = "fallback"
         /\ loc' = [l EXCEPT !.content = None]

\* mutant of ContinueLoop: the feedback of the failed attempt is not carried
\* forward; the next attempt sees the feedback the failed one started with
ContinueLoopStaleFeedback(l) ==
    IF l.attempt < l.max_retries
    THEN /\ pc' = "generate"
         /\ loc' = [l EXCEPT !.attempt = @ + 1, !.content = None,
                             !.last_feedback = loc.last_feedback]
    ELSE /\ pc' = "fallback"
         /\ loc' = [l EXCEPT !.content = None]

\* `continue`: the next iteration of `for attempt in range(1, max_retries + 1)`,
\* or the code after the loop when the range is exhausted.  `content` is
\* reassigned before its next read, so it is cleared here.
ContinueLoop(l) ==
    IF l.attempt < l.max_retries
    THEN /\ pc' = "generate"
         /\ loc' = [l EXCEPT !.attempt = @ + 1, !.content = None]
    ELSE /\ pc' = "fallback"
         /\ loc' = [l EXCEPT !.content = None]

\* db.update_status(case_id, "discarded"); metrics.log_case_result(*args);
\* return outcome.  The status write is done when the metrics call is bound.
DiscardAndReturn(l, args, outcome) ==
    /\ store' = update_status(store, "discarded")
    /\ loc' = l
    /\ IF log_case_result_binds(args)
       THEN /\ env' = [env EXCEPT !.statusWrites = Append(@, "discarded"),
                                  !.metricsLog = Append(@, log_case_result(args))]
            /\ result' = outcome
            /\ pc' = "returned"
       ELSE /\ env' = [env EXCEPT !.statusWrites = Append(@, "discarded"),
                                  !.raised = Some("TypeError")]
            /\ result' = NoResult
            /\ pc' = "raised"

\* the positional arguments of the metrics calls of the loop
SafetyDiscardArgs(l, content, case_row, reason) ==
    <<"case", SlugOr(content, case_row), "discarded", Some(reason),
      l.safety_status, l.similarity_score, l.uniqueness_score,
      l.unique_block_count, Some(WordCount(content.text)),
      PuiField(l.pui_scores, "total"), PuiField(l.pui_scores, "structure_score"),
      PuiField(l.pui_scores, "data_score"), PuiField(l.pui_scores, "eeat_score"),
      case_row.user_intent, case_row.structure_type, case_row.category>>

QualityDiscardArgs(l, content, case_row) ==
    <<"case", SlugOr(content, case_row), "discarded",
      Some(Msg("similarity_or_uniqueness_fail", <<>>, <<>>)),
      l.safety_status, l.similarity_score, l.uniqueness_score,
      l.unique_block_count, Some(WordCount(content.text)),
      case_row.user_intent, case_row.structure_type, case_row.category>>

PuiDiscardArgs(l, content, case_row) ==
    <<"case", SlugOr(content, case_row), "discarded",
      Some(Msg("pui_too_low", <<>>, <<>>)),
      l.safety_status, l.similarity_score, l.uniqueness_score,
      l.unique_block_count, Some(WordCount(content.text)),
      PuiField(l.pui_scores, "total"), PuiField(l.pui_scores, "structure_score"),
      PuiField(l.pui_scores, "data_score"), PuiField(l.pui_scores, "eeat_score"),
      case_row.user_intent, case_row.structure_type, case_row.category>>

PublishArgs(l, content, case_row) ==
    <<"case", SlugOr(content, case_row), "published", None,
      l.safety_status, l.similarity_score, l.uniqueness_score,
      l.unique_block_count, Some(WordCount(content.text)),
      PuiField(l.pui_scores, "total"), PuiField(l.pui_scores, "structure_score"),
      PuiField(l.pui_scores, "data_score"), PuiField(l.pui_scores, "eeat_score"),
      case_row.user_intent, case_row.structure_type, case_row.category>>

\* mutant of FallbackReason: the fallback always reports the generic reason
FallbackReasonGeneric(l) ==
    IF l.attempt >= 0 THEN Msg("max_retries_exceeded", <<>>, <<>>) ELSE EmptyMsg

FallbackReason(l) == OrElse(l.last_feedback, Msg("max_retries_exceeded", <<>>, <<>>))

FallbackArgs(l, case_row) ==
    <<"case", case_row.slug, "discarded", Some(FallbackReason(l)),
      l.safety_status, l.similarity_score, l.uniqueness_score,
      l.unique_block_count, None,
      PuiField(l.pui_scores, "total"), PuiField(l.pui_scores, "structure_score"),
      PuiField(l.pui_scores, "data_score"), PuiField(l.pui_scores, "eeat_score"),
      case_row.user_intent, case_row.structure_type, case_row.category>>

\* mutant of NotFoundOutcome: the missing case is reported as discarded
NotFoundOutcomeDiscarded == Outcome("discarded", Msg("case_not_found", <<>>, <<>>))

\* return {"status": "error", "reason": "case_not_found"}
NotFoundOutcome == Outcome("error", Msg("case_not_found", <<>>, <<>>))

\* case_row = db.get_case_by_id(case_id); if not case_row: return error
CaseLookup ==
    /\ pc = "lookup"
    /\ IF store = None
       THEN /\ result' = NotFoundOutcome
            /\ pc' = "returned"
            /\ loc' = loc
       ELSE /\ result' = result
            /\ IF loc.max_retries >= 1
               THEN pc' = "generate" /\ loc' = [loc EXCEPT !.attempt = 1]
               ELSE pc' = "fallback" /\ loc' = loc
    /\ UNCHANGED <<q, mfile, plan, req, cfg, store, pipe, env, obs>>

\* writer_client.generate (attempt 1) or refine_draft (later attempts),
\* then slug injection and structure stamping
Generate ==
    /\ pc = "generate"
    /\ LET case_row == store[1]
           pi == planning_info(case_row)
           first == loc.attempt = 1
       IN  \E g \in (IF safe_mode(case_row)
                     THEN {Some(SafeTestDoc(case_row))}
                     ELSE {None} \cup {Some(d) : d \in GenDocs}) :
             /\ obs' = [obs EXCEPT
                          !.generate = IF first THEN @ + 1 ELSE @,
                          !.refine = IF first THEN @ ELSE @ + 1,
                          !.refine_args =
                              IF first THEN @
                              ELSE Some([feedback |-> loc.last_feedback,
                                         previous |-> loc.last_content,
                                         attempt |-> loc.attempt]),
                          !.stages = <<"draft">>,
                          !.failures = IF g = None
                                       THEN Append(@, "writer_failed") ELSE @]
             /\ IF g = None
                THEN ContinueLoop([loc EXCEPT
                         !.last_feedback = Msg("writer_failed", <<>>, <<>>)])
                ELSE /\ pc' = "safety"
                     /\ loc' = [loc EXCEPT !.content =
                           Some(StampStructure(_inject_slug(g[1], case_row.slug), pi))]
    /\ UNCHANGED <<q, mfile, plan, req, cfg, store, pipe, result, env>>

\* safety.review_content(joined) and the safety gate; an exception of
\* review_content propagates out of run_production_loop
SafetyReview ==
    /\ pc = "safety"
    /\ LET case_row == store[1]
           content == loc.content[1]
           text == content.text
       IN  \E ev \in (IF NeedsLLM(text) THEN LLMEvents ELSE {NoLLMCall}) :
             LET sr == review_content(text, ev)
                 l1 == [loc EXCEPT !.safety_status = Some(sr.status),
                                   !.safety_result = Some(sr)]
                 llm_calls == IF ev = NoLLMCall THEN 0 ELSE 1
                 called == {"safety"} \cup (IF llm_calls > 0 THEN {"llm"} ELSE {})
             IN  IF sr.raised # None
                 THEN /\ pc' = "raised"
                      /\ env' = [env EXCEPT !.raised = sr.raised]
                      /\ obs' = [obs EXCEPT !.called = @ \cup called,
                                            !.llm_calls = llm_calls,
                                            !.stages = Append(@, "safety")]
                      /\ UNCHANGED <<loc, store, result>>
                 ELSE
                 /\ obs' = [obs EXCEPT
                              !.called = @ \cup called,
                              !.llm_calls = llm_calls,
                              !.stages = Append(@, "safety"),
                              !.failures = IF safety_rejects(sr.status)
                                           THEN Append(@, "safety") ELSE @]
                 /\ IF safety_rejects(sr.status)
                    THEN IF IsLastAttempt(loc.attempt, loc.max_retries)
                         THEN DiscardAndReturn(l1,
                                  SafetyDiscardArgs(l1, content, case_row, sr.reason),
                                  Outcome("discarded", sr.reason))
                         ELSE /\ ContinueLoop([l1 EXCEPT
                                    !.last_feedback = sr.reason,
                                    !.last_content =
                                        IF sr.refined_content # None
                                        THEN ContentOf(loc.attempt, "refined_content")
                                        ELSE ContentOf(loc.attempt, "document")])
                              /\ UNCHANGED <<store, env, result>>
                    ELSE /\ pc' = "quality"
                         /\ loc' = l1
                         /\ UNCHANGED <<store, env, result>>
    /\ UNCHANGED <<q, mfile, plan, req, cfg, pipe>>

\* similarity, uniqueness and unique blocks, and their gate
QualityCheck ==
    /\ pc = "quality"
    /\ LET case_row == store[1]
           pi == planning_info(case_row)
           content == loc.content[1]
           text == content.text
       IN  \E sim \in SimValues :
             LET uniq == compute_uniqueness_score(sim)
                 blocks == count_unique_blocks(text, pi)
                 l1 == [loc EXCEPT !.similarity_score = Some(sim),
                                   !.uniqueness_score = Some(uniq),
                                   !.unique_block_count = Some(blocks)]
             IN  /\ obs' = [obs EXCEPT
                              !.called = @ \cup {"corpus"},
                              !.stages = Append(@, "similarity"),
                              !.failures =
                                  IF needs_refine_similarity(sim, cfg.similarity_threshold)
                                  THEN Append(@, "similarity")
                                  ELSE IF needs_refine_uniqueness(uniq, blocks)
                                  THEN Append(@, "uniqueness") ELSE @]
                 /\ IF needs_refine_similarity(sim, cfg.similarity_threshold)
                       \/ needs_refine_uniqueness(uniq, blocks)
                    THEN IF IsLastAttempt(loc.attempt, loc.max_retries)
                         THEN DiscardAndReturn(l1,
                                  QualityDiscardArgs(l1, content, case_row),
                                  Outcome("discarded",
                                      Msg("similarity_or_uniqueness_fail", <<>>, <<>>)))
                         ELSE /\ ContinueLoop([l1 EXCEPT
                                    !.last_feedback = QualityFeedback(
                                        sim, cfg.similarity_threshold, uniq, blocks),
                                    !.last_content = ContentOf(loc.attempt, "document")])
                              /\ UNCHANGED <<store, env, result>>
                    ELSE /\ pc' = "pui"
                         /\ loc' = l1
                         /\ UNCHANGED <<store, env, result>>
    /\ UNCHANGED <<q, mfile, plan, req, cfg, pipe>>

\* quality.compute_pui_score and the PUI gate
PuiCheck ==
    /\ pc = "pui"
    /\ LET case_row == store[1]
           pi == planning_info(case_row)
           content == loc.content[1]
           scores == compute_pui_score(content.text, pi, loc.safety_status[1])
           l1 == [loc EXCEPT !.pui_scores = Some(scores)]
       IN  /\ obs' = [obs EXCEPT
                        !.called = @ \cup {"pui"},
                        !.stages = Append(@, "pui"),
                        !.failures = IF pui_too_low(scores.total, cfg.min_pui)
                                     THEN Append(@, "pui") ELSE @]
           /\ IF pui_too_low(scores.total, cfg.min_pui)
              THEN IF IsLastAttempt(loc.attempt, loc.max_retries)
                   THEN DiscardAndReturn(l1,
                            PuiDiscardArgs(l1, content, case_row),
                            Outcome("discarded", Msg("pui_too_low", <<>>, <<>>)))
                   ELSE /\ ContinueLoop([l1 EXCEPT
                              !.last_feedback = PuiFeedback(scores.total, cfg.min_pui),
                              !.last_content = ContentOf(loc.attempt, "document")])
                        /\ UNCHANGED <<store, env, result>>
              ELSE /\ pc' = "publish"
                   /\ loc' = l1
                   /\ UNCHANGED <<store, env, result>>
    /\ UNCHANGED <<q, mfile, plan, req, cfg, pipe>>

\* renderer.generate_and_save_landing raises when page_meta.slug is absent
render_requires_slug(content) == content.slug # ""

\* how the try block of the publish step may end
PublishOutcomes(content, args) ==
    IF ~render_requires_slug(content) THEN {"render_error"}
    ELSE {"render_error", "status_error"}
         \cup (IF log_case_result_binds(args) THEN {"ok", "metrics_error"}
               ELSE {"metrics_error"})

\* try: render_and_save; update_status(published); log_case_result; return
\* except Exception: last_feedback = render_error; continue
Publish ==
    /\ pc = "publish"
    /\ LET case_row == store[1]
           content == loc.content[1]
           args == PublishArgs(loc, content, case_row)
           slug == SlugOr(content, case_row)
       IN  \E o \in PublishOutcomes(content, args) :
             /\ obs' = [obs EXCEPT
                          !.called = @ \cup {"render"},
                          !.stages = Append(@, "render"),
                          !.failures = IF o = "ok" THEN @ ELSE Append(@, o)]
             /\ env' = [env EXCEPT
                          !.rendered = IF o = "render_error" THEN @
                                       ELSE Append(@, content.slug),
                          !.statusWrites = IF o \in {"ok", "metrics_error"}
                                           THEN Append(@, "published") ELSE @,
                          !.metricsLog = IF o = "ok"
                                         THEN Append(@, log_case_result(args)) ELSE @]
             /\ store' = IF o \in {"ok", "metrics_error"}
                         THEN update_status(store, "published") ELSE store
             /\ IF o = "ok"
                THEN /\ result' = Published(HtmlPath(slug), loc.attempt)
                     /\ pc' = "returned"
                     /\ loc' = loc
                ELSE /\ result' = result
                     /\ ContinueLoop([loc EXCEPT !.last_feedback = RenderError(o)])
    /\ UNCHANGED <<q, mfile, plan, req, cfg, pipe>>

\* the code after the attempt loop
Fallback ==
    /\ pc = "fallback"
    /\ DiscardAndReturn(loc, FallbackArgs(loc, store[1]),
                        Outcome("discarded", FallbackReason(loc)))
    /\ UNCHANGED <<q, mfile, plan, req, cfg, pipe, obs>>

(* ------------------- pipeline.run_case / mcp_server ------------------- *)
\* a direct call run_production_loop(case_id, max_retries)
CallLoop ==
    /\ pc = "entry"
    /\ req.entry = "run_production_loop"
    /\ pc' = "lookup"
    /\ loc' = InitLoc(req.max_retries)
    /\ pipe' = [pipe EXCEPT !.runs = @ + 1]
    /\ UNCHANGED <<q, mfile, plan, req, cfg, store, result, env, obs>>

\* mutant of pipeline_retries: an error result ends the request at once
pipeline_retries_never(last_result) == last_result.status = "error" /\ FALSE

\* whether run_case_pipeline runs the case again after this result
pipeline_retries(last_result) == last_result.status = "error"

\* for _ in range(max_attempts): last_result = pipeline.run_case(case_id)
PipelineIterate ==
    /\ pc \in {"entry", "pipeline_next"}
    /\ req.entry = "run_case_pipeline"
    /\ IF pipe.i < req.max_attempts
       THEN /\ pc' = "lookup"
            /\ pipe' = [pipe EXCEPT !.i = @ + 1, !.runs = @ + 1]
            /\ loc' = InitLoc(PIPELINE_MAX_RETRIES)
            /\ result' = NoResult
            /\ obs' = InitObs
       ELSE /\ pc' = "done"
            /\ UNCHANGED <<pipe, loc, result, obs>>
    /\ UNCHANGED <<q, mfile, plan, req, cfg, store, env>>

\* last_result = ...; if last_result.get("status") != "error": break
PipelineCheck ==
    /\ pc = "returned"
    /\ req.entry = "run_case_pipeline"
    /\ pipe' = [pipe EXCEPT !.last_result = result]
    /\ pc' = IF pipeline_retries(result) THEN "pipeline_next" ELSE "done"
    /\ UNCHANGED <<q, mfile, plan, req, cfg, store, loc, result, env, obs>>

Next ==
    \/ CallLoop
    \/ PipelineIterate
    \/ PipelineCheck
    \/ CaseLookup
    \/ Generate
    \/ SafetyReview
    \/ QualityCheck
    \/ PuiCheck
    \/ Publish
    \/ Fallback

Spec == Init /\ [][Next]_vars

\* the program runs to completion: every enabled step is eventually taken
FairSpec == Spec /\ WF_vars(Next)

\* the request has ended: a value was returned or an exception propagated
Terminated ==
    \/ pc = "raised"
    \/ pc = "done"
    \/ pc = "returned" /\ req.entry = "run_production_loop"

(* ---------------- core/quality.py, function by function ---------------- *)
\* bounds of the inputs of the quality functions
MaxCount == 1
MaxCorpus == 1
MaxExcess == 20
MaxParagraphs == 2

\* _tokenize + Counter: a term-frequency vector over the tokens of interest;
\* a text that is empty or holds punctuation only has the all-zero vector
Tokens == {"a", "b", "c"}
Vectors == [Tokens -> 0..MaxCount]
RECURSIVE SumOver(_, _, _)
SumOver(S, a, b) ==
    IF S = {} THEN 0
    ELSE LET t == CHOOSE x \in S : TRUE
         IN  a[t] * b[t] + SumOver(S \ {t}, a, b)
Dot(a, b) == SumOver(Tokens, a, b)
EmptyCounter(a) == \A t \in Tokens : a[t] = 0

\* A similarity is a float: c is its value in hundredths, rounded down when
\* the exact cosine is below 1; e tells, for an exact cosine of 1, whether
\* the float computed is 1.0 (0), the float below it (-1) or above it (1).
Sim(c, e) == [c |-> c, e |-> e]
Greater(x, y) == x.c > y.c \/ (x.c = y.c /\ x.e > y.e)

\* dot / (sqrt(|a|^2) * sqrt(|b|^2)) in IEEE double arithmetic, for parallel
\* vectors, given <<dot, |a|^2, |b|^2>>: where the quotient is not 1.0
RoundsAboveOne == {<<3, 3, 3>>, <<6, 3, 12>>, <<6, 6, 6>>, <<6, 12, 3>>, <<12, 12, 12>>}
RoundsBelowOne ==
    {<<2, 2, 2>>, <<4, 2, 8>>, <<4, 8, 2>>, <<5, 5, 5>>, <<7, 7, 7>>,
     <<8, 8, 8>>, <<10, 10, 10>>}
Rounding(d, na2, nb2) ==
    IF <<d, na2, nb2>> \in RoundsAboveOne THEN 1
    ELSE IF <<d, na2, nb2>> \in RoundsBelowOne THEN 0 - 1
    ELSE 0

\* the hundredths of dot / sqrt(na2 * nb2), rounded down
Hundredths(d, na2, nb2) ==
    CHOOSE n \in 0..100 :
        /\ n * n * na2 * nb2 <= 10000 * d * d
        /\ (n + 1) * (n + 1) * na2 * nb2 > 10000 * d * d

\* mutant of _cosine: two empty vectors count as identical
_cosine_empty_identical(a, b) ==
    IF EmptyCounter(a) /\ EmptyCounter(b) THEN Sim(100, 0)
    ELSE IF EmptyCounter(a) \/ EmptyCounter(b) THEN Sim(0, 0)
    ELSE Sim(Hundredths(Dot(a, b), Dot(a, a), Dot(b, b)),
             IF Dot(a, b) * Dot(a, b) = Dot(a, a) * Dot(b, b)
             THEN Rounding(Dot(a, b), Dot(a, a), Dot(b, b)) ELSE 0)

\* _cosine
_cosine(a, b) ==
    IF EmptyCounter(a) \/ EmptyCounter(b) THEN Sim(0, 0)
    ELSE Sim(Hundredths(Dot(a, b), Dot(a, a), Dot(b, b)),
             IF Dot(a, b) * Dot(a, b) = Dot(a, a) * Dot(b, b)
             THEN Rounding(Dot(a, b), Dot(a, a), Dot(b, b)) ELSE 0)

\* a corpus member: the text _load_text_by_slug returns for a published
\* slug ("" when the file is missing or unreadable), as its vector
Unavailable == [available |-> FALSE, vec |-> [t \in Tokens |-> 0]]
Available(v) == [available |-> TRUE, vec |-> v]
Members == {Unavailable} \cup {Available(v) : v \in Vectors}
RECURSIVE Corpora(_)
Corpora(n) ==
    IF n = 0 THEN {<<>>}
    ELSE Corpora(n - 1) \cup
         {Append(c, m) : c \in {x \in Corpora(n - 1) : Len(x) = n - 1}, m \in Members}

\* for slug in slugs: txt = load; if not txt: continue; sim = _cosine(...);
\* if sim > max_sim: max_sim = sim
RECURSIVE SimilarityLoop(_, _, _, _)
SimilarityLoop(draft_vec, corpus, i, max_sim) ==
    IF i > Len(corpus) THEN max_sim
    ELSE IF ~corpus[i].available
         THEN SimilarityLoop(draft_vec, corpus, i + 1, max_sim)
         ELSE LET sim == _cosine(draft_vec, corpus[i].vec)
              IN  SimilarityLoop(draft_vec, corpus, i + 1,
                                 IF Greater(sim, max_sim) THEN sim ELSE max_sim)

compute_similarity_against_recent(draft_vec, corpus) ==
    SimilarityLoop(draft_vec, corpus, 1, Sim(0, 0))

\* the applications of the quality functions that are checked
SimilarityInputs ==
    {[op |-> "similarity", draft |-> d, corpus |-> c, done |-> FALSE, out |-> Sim(0, 0)] :
        d \in Vectors, c \in Corpora(MaxCorpus)}
UniquenessInputs ==
    {[op |-> "uniqueness", s |-> s, done |-> FALSE, out |-> 0] :
        s \in (0 - MaxExcess)..(100 + MaxExcess)}

\* compute_pui_score: texts over the phrases it looks for, with 0..MaxNumbers
\* numeric tokens; planning infos with each intent and structure type
PuiMarks == {"tl;dr", "sarye", "%", "jigeupmyeongnyeong", "mujogeon seungso"}
PuiTexts ==
    {Text(m, n, 0) : m \in SUBSET PuiMarks, n \in 0..MaxNumbers} \cup
    {Text(PuiMarks \cup {"beomnyul jamun-i anibnida", "jeonmungawa sangui"}, n, 0) :
        n \in 0..MaxNumbers} \cup
    {Text((PuiMarks \ {"mujogeon seungso"})
              \cup {"beomnyul jamun-i anibnida", "jeonmungawa sangui"}, n, 0) :
        n \in 0..MaxNumbers}
PuiPlannings ==
    {[user_intent |-> i, structure_type |-> t, relationship |-> "",
      legal_strategy |-> l, unique_data_point |-> u, main_keyword |-> ""] :
        i \in {"", "gyesan", "haengdong-yudo", "jeongbo-tamsaek"},
        t \in {"", "TYPE_A", "TYPE_B", "TYPE_C"},
        l \in {"", "jigeupmyeongnyeong"},
        u \in {"", "sarye"}}
PuiInputs ==
    {[op |-> "pui", text |-> t, pi |-> p, safety_status |-> st, done |-> FALSE,
      out |-> [total |-> 0, structure_score |-> 0, data_score |-> 0, eeat_score |-> 0]] :
        t \in PuiTexts, p \in PuiPlannings, st \in {"PASS", "EDIT"}}

\* count_unique_blocks on the text itself: the pieces re.split yields are
\* blank (whitespace only) or hold words; a keyword is "", " " (whitespace
\* only) or a word, in lower or upper case
Lower(w) == IF w = "A" THEN "a" ELSE w
Strip(w) == IF w = " " THEN "" ELSE w
BlankPiece == [blank |-> TRUE, words |-> {}]
Piece(words) == [blank |-> FALSE, words |-> words]
Pieces == {BlankPiece, Piece({}), Piece({"a"}), Piece({"A"}), Piece({"b"})}
RECURSIVE PieceSeqs(_)
PieceSeqs(n) ==
    IF n = 0 THEN {<<>>}
    ELSE PieceSeqs(n - 1) \cup
         {Append(t, p) : t \in {x \in PieceSeqs(n - 1) : Len(x) = n - 1}, p \in Pieces}

\* `k in lp`: the empty string is a substring of every string
InParagraph(k, p) == k = "" \/ k \in {Lower(w) : w \in p.words}

\* keywords: the truthy planning fields, then the items of
\* str(planning_info["keywords"]).split(",") when that field is truthy
KeywordsOf(pi) ==
    (IF pi.legal_strategy # "" THEN <<pi.legal_strategy>> ELSE <<>>) \o pi.keywords

\* paragraphs = [p.strip() for p in re.split(...) if p.strip()]
Paragraphs(pieces) == SelectSeq(pieces, LAMBDA p : ~p.blank)

\* lowered_keys = [k.lower().strip() for k in keywords if k]
LoweredKeys(keywords) ==
    {Strip(Lower(keywords[i])) : i \in {j \in 1..Len(keywords) : keywords[j] # ""}}

\* for p in paragraphs: if any(k in lp for k in lowered_keys): count += 1
RECURSIVE CountLoop(_, _, _, _)
CountLoop(paragraphs, lowered_keys, i, count) ==
    IF i > Len(paragraphs) THEN count
    ELSE CountLoop(paragraphs, lowered_keys, i + 1,
                   IF \E k \in lowered_keys : InParagraph(k, paragraphs[i])
                   THEN count + 1 ELSE count)

CountBlocks(pieces, pi) ==
    CountLoop(Paragraphs(pieces), LoweredKeys(KeywordsOf(pi)), 1, 0)

\* the split items of the keywords field: absent, "a", " ", "a, ,b", "b"
KeywordFields == {<<>>, <<"a">>, <<" ">>, <<"a", " ", "b">>, <<"b">>}
BlocksInputs ==
    {[op |-> "blocks", pieces |-> t,
      pi |-> [legal_strategy |-> l, keywords |-> k], done |-> FALSE, out |-> 0] :
        t \in PieceSeqs(MaxParagraphs), l \in {"", " ", "a", "A"}, k \in KeywordFields}

\* _flatten_content on the document itself.  A text is a sequence of
\* characters: "x" (any non-whitespace character), "SP", "NL", and "None"
\* (the four letters str(None) yields).  A value of the document is a
\* string leaf, a null leaf or a list of leaves; a document is the sequence
\* of the values of the top-level mapping.
MaxFields == 2
StrLeaf(chars) == [kind |-> "str", chars |-> chars, items |-> <<>>]
NullLeaf == [kind |-> "null", chars |-> <<>>, items |-> <<>>]
ListOf(items) == [kind |-> "list", chars |-> <<>>, items |-> items]
Leaves ==
    {StrLeaf(<<"x">>), StrLeaf(<<"x", "NL">>), StrLeaf(<<"NL", "x">>),
     StrLeaf(<<"x", "NL", "NL", "x">>), NullLeaf}
DocValues ==
    Leaves \cup {ListOf(<<>>)} \cup {ListOf(<<a>>) : a \in Leaves}
           \cup {ListOf(<<StrLeaf(<<"x", "NL">>), StrLeaf(<<"NL", "x">>)>>)}
RECURSIVE Documents(_)
Documents(n) ==
    IF n = 0 THEN {<<>>}
    ELSE Documents(n - 1) \cup
         {Append(d, v) : d \in {x \in Documents(n - 1) : Len(x) = n - 1}, v \in DocValues}

\* mutant of Joined: the parts are joined by a blank line
JoinedByBlankLine(a, b) == a \o <<"NL", "NL">> \o b

\* two consecutive parts of " ".join(...)
Joined(a, b) == a \o <<"SP">> \o b

\* " ".join(parts)
RECURSIVE SpaceJoin(_)
SpaceJoin(parts) ==
    IF parts = <<>> THEN <<>>
    ELSE IF Len(parts) = 1 THEN parts[1]
    ELSE Joined(SpaceJoin(SubSeq(parts, 1, Len(parts) - 1)), parts[Len(parts)])

\* return str(val)
StrOf(leaf) == IF leaf.kind = "str" THEN leaf.chars ELSE <<"None">>

\* walk(val): a list is the join of its items' walks, a leaf its str
walk(val) ==
    IF val.kind = "list"
    THEN SpaceJoin([i \in 1..Len(val.items) |-> StrOf(val.items[i])])
    ELSE StrOf(val)

\* walk(content), content being a dict: the join of its values' walks
_flatten_content(doc) == SpaceJoin([i \in 1..Len(doc) |-> walk(doc[i])])

\* re.split(r"\n\s*\n", text) with the blank pieces dropped: a paragraph
\* starts at the first non-whitespace character, and at each one separated
\* from the non-whitespace character before it by two newlines or more
IsWhitespace(c) == c \in {"SP", "NL"}
ParagraphStarts(text) ==
    {i \in 1..Len(text) :
        /\ ~IsWhitespace(text[i])
        /\ \/ \A j \in 1..(i - 1) : IsWhitespace(text[j])
           \/ \E j \in 1..(i - 1) :
                 /\ ~IsWhitespace(text[j])
                 /\ \A k \in (j + 1)..(i - 1) : IsWhitespace(text[k])
                 /\ Cardinality({k \in (j + 1)..(i - 1) : text[k] = "NL"}) >= 2}
ParagraphCount(text) == Cardinality(ParagraphStarts(text))

FlattenInputs ==
    {[op |-> "flatten", doc |-> d, done |-> FALSE, out |-> <<>>] :
        d \in Documents(MaxFields)}

LoopIdle ==
    /\ req = [entry |-> "run_production_loop", max_retries |-> 0, max_attempts |-> 0]
    /\ cfg = [similarity_threshold |-> DEFAULT_SIMILARITY_THRESHOLD,
              min_pui |-> DEFAULT_MIN_PUI]
    /\ store = None
    /\ pipe = [i |-> 0, last_result |-> NoResult, runs |-> 0]
    /\ pc = "idle"
    /\ loc = InitLoc(0)
    /\ result = NoResult
    /\ env = InitEnv
    /\ obs = InitObs

QInit ==
    /\ LoopIdle
    /\ mfile = MIdle
    /\ plan = PIdle
    /\ \/ q \in SimilarityInputs
       \/ q \in UniquenessInputs
       \/ q \in PuiInputs
       \/ q \in BlocksInputs
       \/ q \in FlattenInputs

ApplySimilarity ==
    /\ q.op = "similarity" /\ ~q.done
    /\ q' = [q EXCEPT !.done = TRUE,
                      !.out = compute_similarity_against_recent(q.draft, q.corpus)]
    /\ UNCHANGED <<LoopVars, mfile, plan>>

ApplyUniqueness ==
    /\ q.op = "uniqueness" /\ ~q.done
    /\ q' = [q EXCEPT !.done = TRUE, !.out = compute_uniqueness_score(q.s)]
    /\ UNCHANGED <<LoopVars, mfile, plan>>

ApplyPui ==
    /\ q.op = "pui" /\ ~q.done
    /\ q' = [q EXCEPT !.done = TRUE,
                      !.out = compute_pui_score(q.text, q.pi, q.safety_status)]
    /\ UNCHANGED <<LoopVars, mfile, plan>>

ApplyBlocks ==
    /\ q.op = "blocks" /\ ~q.done
    /\ q' = [q EXCEPT !.done = TRUE, !.out = CountBlocks(q.pieces, q.pi)]
    /\ UNCHANGED <<LoopVars, mfile, plan>>

ApplyFlatten ==
    /\ q.op = "flatten" /\ ~q.done
    /\ q' = [q EXCEPT !.done = TRUE, !.out = _flatten_content(q.doc)]
    /\ UNCHANGED <<LoopVars, mfile, plan>>

QNext ==
    \/ ApplySimilarity
    \/ ApplyUniqueness
    \/ ApplyPui
    \/ ApplyBlocks
    \/ ApplyFlatten

QualitySpec == QInit /\ [][QNext]_vars

(* ------------- core/metrics.py, under concurrent instances ------------- *)
\* Two loop instances (processes) log to the same logs/content_metrics.csv.
\* mfile.exists and mfile.lines are the file; mfile.at[i] is the position of
\* instance i inside log_case_result, mfile.n[i] the calls it has completed,
\* mfile.written the rows appended so far.
MaxRows == 2
Instances == {1, 2}
Header == <<"header">>
Row(i, k) == <<"row", i, k>>

\* the file before the instances start: absent, or left with its header by
\* an earlier process
MetricsInits ==
    {[op |-> "log", exists |-> e, lines |-> IF e THEN <<Header>> ELSE <<>>,
      at |-> [i \in Instances |-> "check"], n |-> [i \in Instances |-> 0],
      written |-> {}] : e \in BOOLEAN}

MInit ==
    /\ LoopIdle
    /\ q = QIdle
    /\ plan = PIdle
    /\ mfile \in MetricsInits

\* _ensure_header: if not LOG_PATH.exists()
CheckHeader(i) ==
    /\ mfile.op = "log" /\ mfile.at[i] = "check"
    /\ mfile' = [mfile EXCEPT !.at[i] = IF mfile.exists THEN "append" ELSE "create"]
    /\ UNCHANGED <<LoopVars, q, plan>>

\* LOG_PATH.open("w"): creates the file, or truncates the file another
\* instance has created since the check
CreateFile(i) ==
    /\ mfile.op = "log" /\ mfile.at[i] = "create"
    /\ mfile' = [mfile EXCEPT !.exists = TRUE, !.lines = <<>>, !.at[i] = "header"]
    /\ UNCHANGED <<LoopVars, q, plan>>

\* writer.writerow(header), flushed when the with block closes the file: the
\* handle opened with "w" writes at its own offset 0, over what another
\* instance has appended since the truncation
WriteHeader(i) ==
    /\ mfile.op = "log" /\ mfile.at[i] = "header"
    /\ mfile' = [mfile EXCEPT
                    !.lines = IF @ = <<>> THEN <<Header>> ELSE [@ EXCEPT ![1] = Header],
                    !.at[i] = "append"]
    /\ UNCHANGED <<LoopVars, q, plan>>

\* with LOG_PATH.open("a") as f: writer.writerow(row)
AppendRow(i) ==
    /\ mfile.op = "log" /\ mfile.at[i] = "append"
    /\ LET row == Row(i, mfile.n[i] + 1)
       IN  mfile' = [mfile EXCEPT
                       !.exists = TRUE,
                       !.lines = Append(@, row),
                       !.written = @ \cup {row},
                       !.n[i] = @ + 1,
                       !.at[i] = IF mfile.n[i] + 1 < MaxRows THEN "check" ELSE "done"]
    /\ UNCHANGED <<LoopVars, q, plan>>

MNext ==
    \E i \in Instances :
        \/ CheckHeader(i)
        \/ CreateFile(i)
        \/ WriteHeader(i)
        \/ AppendRow(i)

MetricsSpec == MInit /\ [][MNext]_vars

(* --------------------------- core/planner.py -------------------------- *)
\* One call of suggest_new_cases.  A seed is known by the strategy
\* _pick_strategy derives from it and by its amount band; the counts of the
\* cases table are per (strategy, band).
MaxLimit == 2
MaxPerBand == 2
Seed(strategy, amount_band) == [legal_strategy |-> strategy, amount_band |-> amount_band]
AllSeeds == {Seed("A", "lo"), Seed("A", "hi"), Seed("B", "lo")}
band_key(seed) == <<seed.legal_strategy, seed.amount_band>>
Bands == {band_key(s) : s \in AllSeeds}

\* seeds of the CSV, limit, Config.MAX_CASES_PER_STRATEGY_BAND and the
\* counts of db.count_cases_by_strategy_and_amount, summed per band
PlannerInits ==
    {[op |-> "plan", at |-> "start", seeds |-> ss, limit |-> l, max_per_band |-> m,
      band_counts |-> bc, results |-> <<>>, seed |-> None, collides |-> FALSE] :
        ss \in SUBSET AllSeeds, l \in 0..MaxLimit, m \in 1..MaxPerBand,
        bc \in [Bands -> 0..MaxPerBand]}

PInit ==
    /\ LoopIdle
    /\ q = QIdle
    /\ mfile = MIdle
    /\ plan \in PlannerInits

\* seeds = load_seed_cases(); if not seeds: return []
LoadSeeds ==
    /\ plan.op = "plan" /\ plan.at = "start"
    /\ plan' = [plan EXCEPT !.at = IF plan.seeds = {} THEN "done" ELSE "loop"]
    /\ UNCHANGED <<LoopVars, q, mfile>>

\* while len(results) < limit: ... return results
ReturnResults ==
    /\ plan.op = "plan" /\ plan.at = "loop"
    /\ Len(plan.results) >= plan.limit
    /\ plan' = [plan EXCEPT !.at = "done"]
    /\ UNCHANGED <<LoopVars, q, mfile>>

\* seed = random.choice(seeds); planned = _build_planned_case(seed, domain):
\* the slug is drawn at random and may collide with an existing one
PickSeed(s, collides) ==
    /\ plan.op = "plan" /\ plan.at = "loop"
    /\ Len(plan.results) < plan.limit
    /\ s \in plan.seeds
    /\ plan' = [plan EXCEPT !.at = "picked", !.seed = Some(s), !.collides = collides]
    /\ UNCHANGED <<LoopVars, q, mfile>>

\* current_cnt = band_counts.get(band_key, 0) + sum(1 for r in results if
\* r["legal_strategy"] == planned.legal_strategy and <seed's band equals itself>)
current_cnt(p) ==
    p.band_counts[band_key(p.seed[1])]
    + Cardinality({i \in 1..Len(p.results) :
                      p.results[i].legal_strategy = p.seed[1].legal_strategy})

\* `continue` on a slug collision or a full band
SkipSeed ==
    /\ plan.op = "plan" /\ plan.at = "picked"
    /\ plan.collides \/ current_cnt(plan) >= plan.max_per_band
    /\ plan' = [plan EXCEPT !.at = "loop"]
    /\ UNCHANGED <<LoopVars, q, mfile>>

\* band_counts[band_key] += 1; results.append(planned.__dict__)
AppendCase ==
    /\ plan.op = "plan" /\ plan.at = "picked"
    /\ ~plan.collides /\ current_cnt(plan) < plan.max_per_band
    /\ plan' = [plan EXCEPT !.at = "loop",
                            !.band_counts[band_key(plan.seed[1])] = @ + 1,
                            !.results = Append(@, plan.seed[1])]
    /\ UNCHANGED <<LoopVars, q, mfile>>

PNext ==
    \/ LoadSeeds
    \/ ReturnResults
    \/ \E s \in AllSeeds, c \in BOOLEAN : PickSeed(s, c)
    \/ SkipSeed
    \/ AppendCase

PlannerSpec == PInit /\ [][PNext]_vars

\* the call keeps running, and random.choice and the random slug give every
\* seed, with a fresh slug, again and again
FairPlannerSpec ==
    /\ PlannerSpec
    /\ WF_vars(PNext)
    /\ \A s \in AllSeeds : SF_vars(PickSeed(s, FALSE))

(* ------------------------------ claims -------------------------------- *)
\* a run of run_production_loop on an existing case has ended
RunEnded == store # None /\ pc \in {"returned", "raised"}

StageOrder == <<"draft", "safety", "similarity", "pui", "render">>
IsPrefix(a, b) == Len(a) <= Len(b) /\ \A i \in 1..Len(a) : a[i] = b[i]
GeneratorCalls == obs.generate + obs.refine

\* C1: on an existing case run_production_loop ends by returning an outcome
\* with a status and a reason or an artifact location; no exception
\* propagates out of the loop, whatever the collaborators return.
C1_NoExceptionEscapes ==
    /\ pc # "raised"
    /\ (store # None /\ pc = "returned") =>
          /\ result.status \in {"published", "discarded"}
          /\ (result.reason # None \/ result.html_path # None)

\* C2: a run on an existing case makes exactly one status write and one
\* metrics record, both with the status of the returned outcome.
C2_ExactlyOneOutcome ==
    RunEnded =>
        /\ result.status \in {"published", "discarded"}
        /\ Len(env.statusWrites) = 1
        /\ Len(env.metricsLog) = 1
        /\ env.statusWrites[1] = result.status
        /\ env.metricsLog[1].status = result.status

C4_SimilarityDiscardAfterTwo ==
    (/\ RunEnded
     /\ loc.max_retries = 3
     /\ obs.failures # <<>>
     /\ \A i \in 1..Len(obs.failures) : obs.failures[i] = "similarity")
    => /\ pc = "returned"
       /\ result.status = "discarded"
       /\ GeneratorCalls = 2
       /\ \E i \in 1..Len(result.reason[1].words) : result.reason[1].words[i] = "yusado"

\* C5: the attempt loop runs at most max_retries iterations and every failed
\* attempt either returns or advances to the next attempt (or, the range
\* exhausted, to the code after the loop that returns).
C5_FailurePathsReturnOrAdvance ==
    [][/\ loc'.attempt <= loc'.max_retries
       /\ Len(obs'.failures) > Len(obs.failures) =>
             \/ pc' = "returned"
             \/ pc' = "fallback"
             \/ pc' = "generate" /\ loc'.attempt = loc.attempt + 1]_vars

\* C6: for a missing case the run returns error / case_not_found and calls no
\* collaborator: no generator, safety, corpus, PUI or render call, no status
\* write, no metrics row.
C6_NotFoundCallsNothing ==
    store = None =>
        /\ obs.generate = 0 /\ obs.refine = 0 /\ obs.called = {}
        /\ obs.stages = <<>>
        /\ env.statusWrites = <<>> /\ env.metricsLog = <<>> /\ env.rendered = <<>>
        /\ pc = "returned" =>
              /\ result.status = "error"
              /\ result.reason = Some(Msg("case_not_found", <<>>, <<>>))
              /\ result.html_path = None

C6_NotFoundReturned == store = None /\ pc = "returned"

\* C7 as stated: through run_case_pipeline a missing case is run once.
C7_MissingCaseRunOnce ==
    (req.entry = "run_case_pipeline" /\ store = None) => pipe.runs <= 1

\* C7 amended: inside run_production_loop a missing case is not retried (no
\* attempt is started), but run_case_pipeline runs the case again on each
\* error result: a missing case is run max_attempts times and the last
\* case_not_found result is returned.
C7_MissingCaseRunsMaxAttempts ==
    (req.entry = "run_case_pipeline" /\ store = None) =>
        /\ loc.attempt = 0
        /\ pipe.runs <= req.max_attempts
        /\ pc = "done" =>
              /\ pipe.runs = req.max_attempts
              /\ req.max_attempts >= 1 => pipe.last_result = NotFoundOutcome

C7_MissingCaseRunTwice ==
    /\ req.entry = "run_case_pipeline" /\ store = None
    /\ pc = "done" /\ pipe.runs = 2
    /\ pipe.last_result.status = "error"

\* C8: within an attempt the stages run in the order draft, safety,
\* similarity, PUI, render; similarity is computed only after a safety verdict
\* that is neither EDIT nor DISCARD, PUI only after the similarity/uniqueness
\* gate passed, the renderer only after the PUI gate passed.
C8_StagesInOrder ==
    /\ IsPrefix(obs.stages, StageOrder)
    /\ Len(obs.stages) >= 3 =>
          /\ loc.safety_status # None
          /\ loc.safety_status[1] \notin {"EDIT", "DISCARD"}
    /\ Len(obs.stages) >= 4 =>
          /\ loc.similarity_score[1] <= cfg.similarity_threshold
          /\ loc.uniqueness_score[1] >= 60
          /\ loc.unique_block_count[1] >= 3
    /\ Len(obs.stages) >= 5 =>
          loc.pui_scores[1].total >= cfg.min_pui

C8_AllStagesRun == obs.stages = StageOrder

\* C9: a run returns published only if in its final attempt the safety status
\* was neither EDIT nor DISCARD, similarity <= threshold, uniqueness >= 0.6,
\* unique blocks >= 3, PUI total >= min_pui, and render, status write and
\* metrics write completed.
C9_PublishedOnlyIfAllGatesPass ==
    result.status = "published" =>
        /\ obs.stages = StageOrder
        /\ result.attempts = Some(loc.attempt)
        /\ loc.safety_status[1] \notin {"EDIT", "DISCARD"}
        /\ loc.similarity_score[1] <= cfg.similarity_threshold
        /\ loc.uniqueness_score[1] >= 60
        /\ loc.unique_block_count[1] >= 3
        /\ loc.pui_scores[1].total >= cfg.min_pui
        /\ env.rendered # <<>>
        /\ env.rendered[Len(env.rendered)] = loc.content[1].slug
        /\ env.statusWrites # <<>>
        /\ env.statusWrites[Len(env.statusWrites)] = "published"
        /\ env.metricsLog # <<>>
        /\ env.metricsLog[Len(env.metricsLog)].status = "published"
        /\ store[1].status = "published"

\* values exactly at the thresholds pass
C9_PublishedAtThresholds ==
    /\ result.status = "published"
    /\ loc.similarity_score = Some(cfg.similarity_threshold)
    /\ loc.pui_scores[1].total = cfg.min_pui

\* C10: a first attempt whose document passes safety, has similarity 0, at
\* least 3 unique blocks and PUI total >= min_pui, and whose render and
\* persistence succeed, returns published with attempts = 1 and a non-empty
\* artifact location after one generate call and no refine call; only a
\* render or persistence failure keeps such an attempt from publishing.
C10_FirstAttemptPasses ==
    /\ loc.attempt = 1
    /\ loc.safety_status = Some("PASS")
    /\ loc.similarity_score = Some(0)
    /\ loc.unique_block_count # None /\ loc.unique_block_count[1] >= 3
    /\ loc.pui_scores # None /\ loc.pui_scores[1].total >= cfg.min_pui

C10_RenderAndPersistOk ==
    /\ Len(env.rendered) = 1
    /\ env.statusWrites = <<"published">>
    /\ Len(env.metricsLog) = 1

C10_PublishedOnFirstAttempt ==
    /\ (C10_FirstAttemptPasses /\ C10_RenderAndPersistOk) =>
          /\ pc \in {"returned", "done"}
          /\ result.status = "published"
          /\ result.attempts = Some(1)
          /\ result.html_path \notin {None, Some("")}
          /\ obs.generate = 1 /\ obs.refine = 0
    /\ (C10_FirstAttemptPasses /\ pc # "publish" /\ result.status # "published") =>
          /\ Len(obs.failures) = 1
          /\ obs.failures[1] \in {"render_error", "status_error", "metrics_error"}

C10_FirstAttemptPublished ==
    /\ C10_FirstAttemptPasses /\ C10_RenderAndPersistOk
    /\ pc = "returned"
    /\ result.html_path = Some("public/case-slug.html")

\* the failure of the latest failed attempt of the run
HasFailure == obs.failures # <<>>
LastFailure == obs.failures[Len(obs.failures)]
\* the run's last attempt failed (every failed attempt records its failure)
FinalAttemptFailed == HasFailure /\ Len(obs.failures) = loc.attempt
PublishFailures == {"render_error", "status_error", "metrics_error"}

\* the failure of the attempt before the one a refinement was called for
RefinedFailure == obs.failures[obs.refine_args[1].attempt - 1]

\* the case was persisted as discarded and the outcome returned with it
DiscardedWith(kind) ==
    /\ result.status = "discarded"
    /\ result.reason # None /\ result.reason[1].kind = kind
    /\ store[1].status = "discarded"
    /\ env.statusWrites[Len(env.statusWrites)] = "discarded"
    /\ env.metricsLog # <<>>
    /\ env.metricsLog[Len(env.metricsLog)].status = "discarded"
    /\ env.metricsLog[Len(env.metricsLog)].reason.kind = kind

\* C11: an attempt in which the generator returns no document runs no
\* evaluator and no renderer; its failure reason is "writer_failed"; with
\* attempts left the next attempt is a refinement with feedback
\* "writer_failed", otherwise the case is persisted as discarded and
\* {discarded, "writer_failed"} is returned.
C11_WriterFailed ==
    /\ (HasFailure /\ pc \in {"generate", "fallback"}
                   /\ LastFailure = "writer_failed") =>
          /\ obs.stages = <<"draft">>
          /\ loc.last_feedback = Msg("writer_failed", <<>>, <<>>)
          /\ pc = "generate" => loc.attempt <= loc.max_retries
          /\ pc = "fallback" => loc.attempt = loc.max_retries
    /\ (obs.refine_args # None /\ RefinedFailure = "writer_failed") =>
          obs.refine_args[1].feedback = Msg("writer_failed", <<>>, <<>>)
    /\ (store # None /\ pc = "returned" /\ FinalAttemptFailed
                     /\ LastFailure = "writer_failed") =>
          /\ obs.stages = <<"draft">>
          /\ DiscardedWith("writer_failed")
          /\ result.reason[1] = Msg("writer_failed", <<>>, <<>>)

C11_WriterFailedTwice ==
    /\ pc = "returned" /\ FinalAttemptFailed /\ LastFailure = "writer_failed"
    /\ obs.refine_args # None /\ RefinedFailure = "writer_failed"
    /\ result.status = "discarded"

\* C12: an error of the renderer, of the 'published' status write or of the
\* metrics write in the publish step is caught and becomes the failure reason
\* "render_error: <detail>"; it consumes the attempt: with attempts left the
\* next attempt is a refinement with that feedback, on the last attempt the
\* case is persisted as discarded with a reason starting "render_error:".
C12_RenderErrorCaught ==
    /\ (HasFailure /\ pc \in {"generate", "fallback"}
                   /\ LastFailure \in PublishFailures) =>
          /\ loc.last_feedback = Msg("render_error", <<>>, <<LastFailure>>)
          /\ pc = "generate" => loc.attempt = Len(obs.failures) + 1
          /\ pc = "fallback" => loc.attempt = loc.max_retries
    /\ (obs.refine_args # None /\ RefinedFailure \in PublishFailures) =>
          obs.refine_args[1].feedback = Msg("render_error", <<>>, <<RefinedFailure>>)
    /\ (store # None /\ pc = "returned" /\ FinalAttemptFailed
                     /\ LastFailure \in PublishFailures) =>
          DiscardedWith("render_error")

C12_RenderErrorThenRefineThenDiscard ==
    /\ pc = "returned" /\ Len(obs.failures) = 2
    /\ obs.failures[1] = "status_error" /\ obs.failures[2] = "render_error"
    /\ obs.refine_args # None
    /\ obs.refine_args[1].feedback = Msg("render_error", <<>>, <<"status_error">>)
    /\ result.status = "discarded"

\* C13: every discarded outcome returned carries a specific, non-empty
\* reason identifying the failure of its final attempt, for every verdict the
\* safety reviewer can produce, semantic-stage EDIT/DISCARD verdicts with an
\* empty or absent reason included.
C13_DiscardReasonSpecific ==
    (store # None /\ pc = "returned" /\ result.status = "discarded"
                  /\ FinalAttemptFailed) =>
        /\ result.reason # None
        /\ result.reason[1].kind \notin {"", "max_retries_exceeded"}
        /\ LastFailure = "writer_failed" => result.reason[1].kind = "writer_failed"
        /\ LastFailure \in PublishFailures => result.reason[1].kind = "render_error"
        /\ LastFailure = "pui" => result.reason[1].kind = "pui_too_low"
        /\ LastFailure = "safety" => result.reason[1] = loc.safety_result[1].reason

\* C14: every published outcome carries a non-empty artifact location
\* "public/<slug>.html" naming the slug under which the renderer saved the
\* artifact in that attempt: the document's page_meta slug, which is the
\* case's slug when the generator supplied none.
C14_PublishedLocation ==
    result.status = "published" =>
        /\ env.rendered # <<>>
        /\ env.rendered[Len(env.rendered)] # ""
        /\ env.rendered[Len(env.rendered)] = loc.content[1].slug
        /\ result.html_path # None
        /\ result.html_path[1] # ""
        /\ result.html_path[1] = "public/" \o env.rendered[Len(env.rendered)] \o ".html"
        /\ \/ loc.content[1].slug = store[1].slug
           \/ loc.content[1].slug \in {d.slug : d \in GenDocs}

C14_PublishedUnderDocumentSlug ==
    /\ result.status = "published"
    /\ store[1].slug = "case-slug"
    /\ result.html_path = Some("public/doc-slug.html")

\* the text under review, and the verdict of the current attempt's review
ReviewedText == loc.content[1].text
FreshVerdict ==
    /\ pc \in {"quality", "pui", "publish", "returned"}
    /\ loc.content # None /\ loc.safety_result # None
TheVerdict == loc.safety_result[1]
HasHard(text) == \E i \in 1..Len(RED_FLAGS) : Contains(text, RED_FLAGS[i])
HasSoft(text) == \E i \in 1..Len(SOFT_FLAGS) : Contains(text, SOFT_FLAGS[i])
Listed(words, flags, text) ==
    /\ \A i \in 1..Len(words) : \E j \in 1..Len(flags) : words[i] = flags[j]
    /\ \A j \in 1..Len(flags) :
          Contains(text, flags[j]) <=> \E i \in 1..Len(words) : words[i] = flags[j]
AnyLLMEvent == LLMEvents \cup {NoLLMCall}

\* (the phrases of both lists hold no cased letter, so the lower-casing of
\* text and phrase changes no match and is not modelled)
\* C15: a text with a hard-denylist phrase gets DISCARD, risk_score 90 and a
\* reason listing the matched phrases, whatever soft phrases it also holds
\* and whatever the semantic collaborator would do; the collaborator is not
\* called.
C15_HardDiscard ==
    /\ (pc = "safety" /\ HasHard(ReviewedText)) =>
          \A ev \in AnyLLMEvent :
              LET v == review_content(ReviewedText, ev)
              IN  /\ v.raised = None
                  /\ v.status = "DISCARD" /\ v.risk_score = 90
                  /\ v.reason.kind = "hard_flags"
                  /\ Listed(v.reason.words, RED_FLAGS, ReviewedText)
                  /\ v.refined_content = None
    /\ (FreshVerdict /\ HasHard(ReviewedText)) =>
          /\ TheVerdict.status = "DISCARD" /\ TheVerdict.risk_score = 90
          /\ Listed(TheVerdict.reason.words, RED_FLAGS, ReviewedText)
          /\ obs.llm_calls = 0

C15_HardAndSoftTextDiscarded ==
    /\ FreshVerdict /\ HasHard(ReviewedText) /\ HasSoft(ReviewedText)
    /\ TheVerdict.status = "DISCARD" /\ TheVerdict.risk_score = 90
    /\ result.status = "discarded"

\* C16: a text with no hard-denylist phrase and a soft-denylist phrase gets
\* EDIT, risk_score 60, a reason listing the matched phrases and no refined
\* content, without a call of the semantic collaborator; a text with a hard
\* or soft hit never gets PASS, whatever the collaborator's availability.
C16_SoftEdit ==
    /\ (pc = "safety" /\ ~HasHard(ReviewedText) /\ HasSoft(ReviewedText)) =>
          \A ev \in AnyLLMEvent :
              LET v == review_content(ReviewedText, ev)
              IN  /\ v.raised = None
                  /\ v.status = "EDIT" /\ v.risk_score = 60
                  /\ v.reason.kind = "soft_flags"
                  /\ Listed(v.reason.words, SOFT_FLAGS, ReviewedText)
                  /\ v.refined_content = None
    /\ (FreshVerdict /\ ~HasHard(ReviewedText) /\ HasSoft(ReviewedText)) =>
          /\ TheVerdict.status = "EDIT" /\ TheVerdict.risk_score = 60
          /\ TheVerdict.refined_content = None
          /\ obs.llm_calls = 0
    /\ (FreshVerdict /\ (HasHard(ReviewedText) \/ HasSoft(ReviewedText))) =>
          TheVerdict.status # "PASS"

C16_SoftTextEdited ==
    /\ FreshVerdict /\ ~HasHard(ReviewedText) /\ HasSoft(ReviewedText)
    /\ TheVerdict.status = "EDIT" /\ TheVerdict.risk_score = 60
    /\ ~safe_mode(store[1])

\* C17: the stages run in the order hard, soft, semantic and stop at the
\* first that fires; the semantic collaborator is called at most once per
\* review, and only for a text without hard and soft hit.
C17_StagesShortCircuit ==
    /\ obs.llm_calls <= 1
    /\ FreshVerdict =>
          /\ TheVerdict.stage = "hard" <=> HasHard(ReviewedText)
          /\ TheVerdict.stage = "soft" <=>
                (~HasHard(ReviewedText) /\ HasSoft(ReviewedText))
          /\ TheVerdict.stage \in {"llm", "skipped"} <=>
                (~HasHard(ReviewedText) /\ ~HasSoft(ReviewedText))
          /\ obs.llm_calls = 1 <=> TheVerdict.stage \in {"llm", "skipped"}
    /\ (pc = "raised" /\ env.raised \in {Some("OpenAIError"), Some("AttributeError")}) =>
          /\ obs.llm_calls = 1
          /\ ~HasHard(ReviewedText) /\ ~HasSoft(ReviewedText)

C17_SemanticStageReached ==
    /\ FreshVerdict /\ TheVerdict.stage = "llm" /\ TheVerdict.status = "EDIT"
    /\ obs.llm_calls = 1 /\ obs.refine >= 1

NoHits(text) == ~HasHard(text) /\ ~HasSoft(text)
Skipped == Verdict("PASS", 5, Msg("soft check skipped", <<>>, <<>>), None, "skipped")

\* C18: for a text without hard and soft hit every failure or unavailability
\* of the semantic collaborator (configuration error, client construction
\* error, network error, non-JSON answer, a JSON value that is not an object,
\* an empty object) gives exactly {PASS, 5, "soft check skipped"}; none
\* raises out of review_content.
C18_CollaboratorFailureFailsOpen ==
    /\ (pc = "safety" /\ NoHits(ReviewedText)) =>
          \A ev \in LLMFailures : review_content(ReviewedText, ev) = Skipped
    /\ env.raised \notin {Some("OpenAIError"), Some("AttributeError")}

\* the status and risk score review_content gives a collaborator status
MappedStatus(st) == IF st \in {"EDIT", "DISCARD"} THEN st ELSE "PASS"
MappedRisk(st) == IF st = "DISCARD" THEN 85 ELSE IF st = "EDIT" THEN 55 ELSE 5

\* every verdict has one of the three statuses and the risk score of its
\* stage and status
VerdictWellFormed(v) ==
    \/ v.stage = "hard" /\ v.status = "DISCARD" /\ v.risk_score = 90
    \/ v.stage = "soft" /\ v.status = "EDIT" /\ v.risk_score = 60
    \/ v.stage = "llm" /\ v.status = "DISCARD" /\ v.risk_score = 85
    \/ v.stage = "llm" /\ v.status = "EDIT" /\ v.risk_score = 55
    \/ v.stage \in {"llm", "skipped"} /\ v.status = "PASS" /\ v.risk_score = 5

\* C19 as stated: an object answered by the collaborator is mapped to risk
\* 5 / 55 / 85 by its status (an unexpected status counting as PASS), and its
\* reason and refined text are passed through.
C19_ReasonAndRefinedPassedThrough ==
    /\ (pc = "safety" /\ NoHits(ReviewedText)) =>
          \A r \in LLMResults :
              LET v == review_content(ReviewedText, LLMEvent("json", "object", r))
              IN  /\ v.status = MappedStatus(r.status)
                  /\ v.risk_score = MappedRisk(r.status)
                  /\ v.reason = r.reason
                  /\ v.refined_content = r.refined_content
    /\ FreshVerdict => VerdictWellFormed(TheVerdict)

\* C19 amended: the status is mapped to risk 5 / 55 / 85 (an unexpected
\* status counting as PASS); reason and refined text are passed through for
\* EDIT and DISCARD only; a PASS verdict carries the collaborator's reason,
\* or "LLM pass" when that is empty, and no refined text.  Every verdict
\* returned has a status of the three and the risk score of (stage, status).
C19_VerdictMapping ==
    /\ (pc = "safety" /\ NoHits(ReviewedText)) =>
          \A r \in LLMResults :
              LET v == review_content(ReviewedText, LLMEvent("json", "object", r))
              IN  /\ v.raised = None
                  /\ v.status = MappedStatus(r.status)
                  /\ v.risk_score = MappedRisk(r.status)
                  /\ v.status # "PASS" =>
                        /\ v.reason = r.reason
                        /\ v.refined_content = r.refined_content
                  /\ v.status = "PASS" =>
                        /\ v.refined_content = None
                        /\ v.reason = IF r.reason = EmptyMsg
                                      THEN Msg("LLM pass", <<>>, <<>>) ELSE r.reason
    /\ FreshVerdict => VerdictWellFormed(TheVerdict)

C19_SemanticPassVerdict ==
    /\ FreshVerdict /\ TheVerdict.stage = "llm"
    /\ TheVerdict.status = "PASS" /\ TheVerdict.risk_score = 5
    /\ TheVerdict.reason = Msg("LLM pass", <<>>, <<>>)
    /\ result.status = "published"

\* C20: the safe-mode document holds no hard-denylist and no soft-denylist
\* phrase, so the string stages of the safety review never reject it.
C20_SafeDocumentDenylistFree ==
    (store # None /\ safe_mode(store[1]) /\ loc.content # None) =>
        /\ NoHits(ReviewedText)
        /\ FreshVerdict => TheVerdict.stage \notin {"hard", "soft"}

One == Sim(100, 0)
Zero == Sim(0, 0)
HoldsDraft(corpus, draft) == \E i \in 1..Len(corpus) : corpus[i] = Available(draft)
AtMost(x, y) == ~Greater(x, y)

Readable(corpus) == SelectSeq(corpus, LAMBDA m : m.available)

\* similarity is the maximum pairwise cosine over the available members, 0.0
\* without any; unavailable members do not affect it; adding a member never
\* lowers it; cosine is 0.0 when either vector is empty
MaxPairwiseCosine ==
    /\ Readable(q.corpus) = <<>> => q.out = Zero
    /\ \A i \in 1..Len(q.corpus) :
          q.corpus[i].available => AtMost(_cosine(q.draft, q.corpus[i].vec), q.out)
    /\ Readable(q.corpus) # <<>> =>
          \E i \in 1..Len(q.corpus) :
              /\ q.corpus[i].available
              /\ q.out = _cosine(q.draft, q.corpus[i].vec)
    /\ q.out = compute_similarity_against_recent(q.draft, Readable(q.corpus))
    /\ \A m \in Members :
          LET more == compute_similarity_against_recent(q.draft, Append(q.corpus, m))
          IN  /\ AtMost(q.out, more)
              /\ ~m.available => more = q.out
              /\ (EmptyCounter(q.draft) \/ EmptyCounter(m.vec)) =>
                    _cosine(q.draft, m.vec) = Zero
              /\ _cosine(q.draft, m.vec) = _cosine(m.vec, q.draft)

\* C22 as stated: the properties above, and the result lies in [0, 1].
C22_MaxPairwiseCosineInUnitInterval ==
    (q.op = "similarity" /\ q.done) =>
        /\ MaxPairwiseCosine
        /\ AtMost(Zero, q.out) /\ AtMost(q.out, One)

\* what the code does guarantee: the properties above, and a result in [0, 1]
\* up to the rounding of the last binary digit, since the cosine of parallel
\* vectors is computed as dot / (sqrt * sqrt) and can come out as
\* 1.0000000000000002
MaxPairwiseCosineRounded ==
    (q.op = "similarity" /\ q.done) =>
        /\ MaxPairwiseCosine
        /\ AtMost(Zero, q.out) /\ AtMost(q.out, Sim(100, 1))
        /\ q.out.c < 100 => q.out.e = 0

SimilarityAboveOne ==
    /\ q.op = "similarity" /\ q.done
    /\ q.corpus = <<Available(q.draft)>>
    /\ q.out = Sim(100, 1)

\* C23: uniqueness(s) = 1 - clamp(s, 0, 1): for every s, values below 0 and
\* above 1 included, the result lies in [0, 1], and s1 <= s2 implies
\* uniqueness(s1) >= uniqueness(s2).
C23_UniquenessClampedMonotone ==
    (q.op = "uniqueness" /\ q.done) =>
        /\ q.out \in 0..100
        /\ q.s < 0 => q.out = 100
        /\ q.s > 100 => q.out = 0
        /\ q.s \in 0..100 => q.out = 100 - q.s
        /\ \A s2 \in (0 - MaxExcess)..(100 + MaxExcess) :
              q.s <= s2 => q.out >= compute_uniqueness_score(s2)

C23_UniquenessOfExcessiveSimilarity ==
    q.op = "uniqueness" /\ q.done /\ q.s > 100 /\ q.out = 0

\* C24: compute_pui_score returns structure in 0..40, data in 0..35, eeat in
\* 0..25; the numeric tokens of the text add at most 15 to the data
\* sub-score however many they are; total = min(100, structure + data + eeat).
C24_PuiSubScoresCapped ==
    (q.op = "pui" /\ q.done) =>
        LET without == compute_pui_score([q.text EXCEPT !.numbers = 0], q.pi,
                                         q.safety_status)
        IN  /\ q.out.structure_score \in 0..40
            /\ q.out.data_score \in 0..35
            /\ q.out.eeat_score \in 0..25
            /\ q.out.data_score - without.data_score \in 0..15
            /\ q.out.structure_score = without.structure_score
            /\ q.out.eeat_score = without.eeat_score
            /\ q.out.total =
                  Min(100, q.out.structure_score + q.out.data_score + q.out.eeat_score)

C24_NumericTokensCapped ==
    /\ q.op = "pui" /\ q.done
    /\ q.text.numbers * 2 > 15
    /\ q.out.data_score = 15 + 8 + 6 + 4
    /\ q.out.structure_score > 0 /\ q.out.eeat_score > 0

\* the keywords with non-whitespace content, lowercased
NonBlankKeywords(pi) ==
    {Lower(k) : k \in {KeywordsOf(pi)[i] : i \in 1..Len(KeywordsOf(pi))} \ {"", " "}}

\* C25: unique_block_count is the number of non-blank paragraphs holding at
\* least one non-blank planning keyword, case-insensitively; keywords of
\* whitespace only, such as the middle item of "a, ,b", make no paragraph count.
C25_BlocksCountNonBlankKeywords ==
    (q.op = "blocks" /\ q.done) =>
        q.out = Cardinality({i \in 1..Len(q.pieces) :
                                /\ ~q.pieces[i].blank
                                /\ \E k \in NonBlankKeywords(q.pi) :
                                      k \in {Lower(w) : w \in q.pieces[i].words}})

\* the row logged with the discarded outcome of an ended run
DiscardLogged ==
    /\ RunEnded /\ pc = "returned" /\ result.status = "discarded"
    /\ env.metricsLog # <<>>
DiscardRow == env.metricsLog[Len(env.metricsLog)]
InFinalAttempt(stage) == \E i \in 1..Len(obs.stages) : obs.stages[i] = stage

\* C26: the metrics logged with a discarded outcome are those of the final
\* attempt: a metric whose stage the final attempt ran carries the value that
\* attempt computed, and a metric whose stage it did not reach is absent.
C26_MetricsOfTerminalAttemptOnly ==
    DiscardLogged =>
        /\ DiscardRow.safety_status =
              (IF InFinalAttempt("safety") THEN loc.safety_status ELSE None)
        /\ DiscardRow.similarity_score =
              (IF InFinalAttempt("similarity") THEN loc.similarity_score ELSE None)
        /\ DiscardRow.uniqueness_score =
              (IF InFinalAttempt("similarity") THEN loc.uniqueness_score ELSE None)
        /\ DiscardRow.unique_block_count =
              (IF InFinalAttempt("similarity") THEN loc.unique_block_count ELSE None)
        /\ DiscardRow.pui_total =
              (IF InFinalAttempt("pui") THEN Some(loc.pui_scores[1].total) ELSE None)

FileLines == {mfile.lines[i] : i \in 1..Len(mfile.lines)}

\* C27: with two instances logging concurrently, the metrics log is
\* append-only: its header row is created exactly once, before the first
\* data row, and a row once written is never removed or overwritten.
C27_MetricsLogAppendOnly ==
    mfile.op = "log" =>
        /\ \A row \in mfile.written : row \in FileLines
        /\ mfile.written # {} => mfile.lines[1] = Header
        /\ Cardinality({i \in 1..Len(mfile.lines) : mfile.lines[i] = Header}) <= 1

\* an attempt of a direct run is under way: every earlier attempt of the run
\* has failed and been followed by this retry
AttemptUnderWay ==
    /\ req.entry = "run_production_loop"
    /\ store # None
    /\ pc \in {"generate", "safety", "quality", "pui", "publish"}

\* C28: side effects are confined to the terminal steps: while an attempt is
\* under way, the failed attempts before it have written no status and no
\* metrics row and rendered nothing, and the case row is as the run found it.
C28_NoSideEffectsBeforeTerminalStep ==
    AttemptUnderWay =>
        /\ env.statusWrites = <<>>
        /\ env.metricsLog = <<>>
        /\ env.rendered = <<>>
        /\ store \in CasePool

\* C29: a run changes no field of the case row but its status: after the
\* terminal status write every other field, batch_date included, is as the
\* run found it.
C29_OnlyStatusChanges ==
    (store # None /\ env.statusWrites # <<>>) =>
        Some([store[1] EXCEPT !.status = "todo"]) \in CasePool

\* the generator has just answered the request of a retry: attempt
\* loc.attempt > 1 holds its draft and the locals still hold what the
\* attempt before it computed
RefinedDraftAtHand ==
    /\ store # None /\ pc = "safety" /\ loc.attempt > 1

\* the failure reason of the attempt before the current one, from the kind
\* of its failure and the values it computed
ReasonOfPreviousAttempt ==
    LET kind == obs.failures[loc.attempt - 1]
    IN  CASE kind = "writer_failed" -> Msg("writer_failed", <<>>, <<>>)
          [] kind = "safety" -> loc.safety_result[1].reason
          [] kind \in {"similarity", "uniqueness"} ->
                 QualityFeedback(loc.similarity_score[1], cfg.similarity_threshold,
                                 loc.uniqueness_score[1], loc.unique_block_count[1])
          [] kind = "pui" -> PuiFeedback(loc.pui_scores[1].total, cfg.min_pui)
          [] OTHER -> Msg("render_error", <<>>, <<kind>>)

\* C30: attempt 1 calls generate and every later attempt calls refine; the
\* feedback handed to the refinement of attempt k+1 is the failure reason of
\* attempt k, not that of an older attempt, and it is empty only when the
\* safety reviewer gave an empty reason.
C30_FeedbackOfPreviousAttempt ==
    /\ (store # None /\ pc \in {"safety", "quality", "pui", "publish"}) =>
          /\ obs.generate = 1
          /\ obs.refine = loc.attempt - 1
          /\ loc.attempt = 1 => obs.refine_args = None
    /\ RefinedDraftAtHand =>
          /\ Len(obs.failures) = loc.attempt - 1
          /\ obs.refine_args # None
          /\ obs.refine_args[1].attempt = loc.attempt
          /\ obs.refine_args[1].feedback = ReasonOfPreviousAttempt
          /\ obs.failures[loc.attempt - 1] # "safety" =>
                obs.refine_args[1].feedback # EmptyMsg

C30_SecondRetryGetsLatestReason ==
    /\ RefinedDraftAtHand /\ loc.attempt = 3
    /\ obs.failures[1] = "pui" /\ obs.failures[2] = "similarity"
    /\ obs.refine_args[1].feedback.kind = "quality"
    /\ obs.generate = 1 /\ obs.refine = 2

\* C31: the previous content handed to the refinement of attempt k+1 is that
\* of attempt k: the reviewer's refined content if present, else the document,
\* after a safety rejection; the document after a quality or PUI failure;
\* never the content of an attempt older than k.
C31_PreviousContentOfLastAttempt ==
    RefinedDraftAtHand =>
        LET k == loc.attempt - 1
            kind == obs.failures[k]
            previous == obs.refine_args[1].previous
        IN  /\ kind = "safety" =>
                  previous = (IF loc.safety_result[1].refined_content # None
                              THEN ContentOf(k, "refined_content")
                              ELSE ContentOf(k, "document"))
            /\ kind \in {"similarity", "uniqueness", "pui"} =>
                  previous = ContentOf(k, "document")
            /\ previous # None => previous[1].attempt = k

\* C32: with the default configuration (min_pui = 80) no run publishes: the
\* PUI gate fails in every attempt that reaches it, the renderer is never
\* invoked and no outcome has status published.
C32_DefaultConfigNeverPublishes ==
    cfg.min_pui = DEFAULT_MIN_PUI =>
        /\ pc # "publish"
        /\ "render" \notin obs.called
        /\ env.rendered = <<>>
        /\ result.status # "published"
        /\ pipe.last_result.status # "published"
        /\ (store # None /\ pc = "pui") =>
              pui_too_low(compute_pui_score(loc.content[1].text, planning_info(store[1]),
                                            loc.safety_status[1]).total,
                          cfg.min_pui)

C32_BestDocumentFailsPuiGate ==
    /\ cfg.min_pui = DEFAULT_MIN_PUI
    /\ RunEnded /\ pc = "returned" /\ result.status = "discarded"
    /\ InFinalAttempt("pui")
    /\ loc.pui_scores[1].total >= 57

\* C33: compute_pui_score never returns a total above 71: structure <= 16
\* (one intent bonus and one layout bonus at most), data <= 33, eeat <= 22,
\* so the caps 40/35/25 and the total cap 100 never bind: the total is the
\* plain sum of the sub-scores.
C33_PuiTotalAtMost71 ==
    (q.op = "pui" /\ q.done) =>
        /\ q.out.structure_score <= 16
        /\ q.out.data_score <= 33
        /\ q.out.eeat_score <= 22
        /\ q.out.total <= 71
        /\ q.out.total = q.out.structure_score + q.out.data_score + q.out.eeat_score

C33_PuiTotalOf71 ==
    /\ q.op = "pui" /\ q.done
    /\ q.out.structure_score = 16 /\ q.out.data_score = 33 /\ q.out.eeat_score = 22
    /\ q.out.total = 71

\* the phrase that earns the +6 EEAT disclaimer bonus
EarnsDisclaimerBonus(text) == Contains(text, "beomnyul jamun-i anibnida")

RECURSIVE LeavesOf(_)
LeavesOf(doc) ==
    IF doc = <<>> THEN <<>>
    ELSE LET v == doc[1]
         IN  (IF v.kind = "list" THEN v.items ELSE <<v>>) \o LeavesOf(Tail(doc))
StringLeaves(doc) == SelectSeq(LeavesOf(doc), LAMBDA l : l.kind = "str")

\* a leaf string holds a blank-line boundary: two newlines with nothing but
\* whitespace between them
HoldsBoundary(chars) ==
    \E i, j \in 1..Len(chars) :
        /\ i < j /\ chars[i] = "NL" /\ chars[j] = "NL"
        /\ \A k \in (i + 1)..(j - 1) : IsWhitespace(chars[k])
HoldsNewline(chars) == \E i \in 1..Len(chars) : chars[i] = "NL"

\* with at most `count` paragraphs the uniqueness gate fails, whatever the
\* uniqueness score and the number of paragraphs bearing a keyword
BlocksGateFails(count) ==
    \A u \in 0..100 : \A b \in 0..count : needs_refine_uniqueness(u, b)

\* C35 as stated: the flattened text of a document none of whose leaf
\* strings holds a blank-line boundary is a single paragraph, so the
\* uniqueness gate fails for it.
C35_NoBoundaryLeavesOneParagraph ==
    (q.op = "flatten" /\ q.done
        /\ \A i \in 1..Len(StringLeaves(q.doc)) :
               ~HoldsBoundary(StringLeaves(q.doc)[i].chars)) =>
        /\ ParagraphCount(q.out) <= 1
        /\ BlocksGateFails(ParagraphCount(q.out))

\* C35 amended: the flattened text of a document none of whose leaf strings
\* holds a newline is a single paragraph at most, so unique_block_count is
\* at most 1 and the uniqueness gate fails for it; a leaf ending with a
\* newline followed by a leaf starting with one makes a paragraph boundary.
C35_NoNewlineLeavesOneParagraph ==
    (q.op = "flatten" /\ q.done
        /\ \A i \in 1..Len(StringLeaves(q.doc)) :
               ~HoldsNewline(StringLeaves(q.doc)[i].chars)) =>
        /\ ParagraphCount(q.out) <= 1
        /\ BlocksGateFails(ParagraphCount(q.out))

C35_TwoLeavesOneParagraph ==
    /\ q.op = "flatten" /\ q.done
    /\ q.doc = <<StrLeaf(<<"x">>), ListOf(<<StrLeaf(<<"x">>)>>)>>
    /\ q.out = <<"x", "SP", "x">>
    /\ ParagraphCount(q.out) = 1

\* C39: the flattened text is the concatenation, depth first and in order,
\* of the leaf strings of the document with exactly one space between
\* consecutive leaves: non-string leaves give no text and empty containers
\* no separator.
C39_FlattenJoinsLeafStrings ==
    (q.op = "flatten" /\ q.done) =>
        q.out = SpaceJoin([i \in 1..Len(StringLeaves(q.doc)) |->
                              StringLeaves(q.doc)[i].chars])

\* the quality gate has just failed on a non-final attempt
QualityRetry ==
    /\ store # None /\ pc = "generate" /\ HasFailure
    /\ Len(obs.failures) = loc.attempt - 1
    /\ LastFailure \in {"similarity", "uniqueness"}

\* C36: the feedback of a quality failure that is retried lists the
\* sub-conditions that fired, similarity first and uniqueness second: the
\* similarity comparison iff similarity > threshold, the uniqueness
\* comparison iff uniqueness < 0.6 or unique_block_count < 3, and the
\* diversify instruction last, always.
C36_QualityFeedbackListsFiredConditions ==
    QualityRetry =>
        LET sim == loc.similarity_score[1]
            uniq == loc.uniqueness_score[1]
            blocks == loc.unique_block_count[1]
            fb == loc.last_feedback
        IN  /\ fb.kind = "quality"
            /\ fb.nums = <<sim, cfg.similarity_threshold, uniq, blocks>>
            /\ fb.words =
                  (IF sim > cfg.similarity_threshold THEN <<"yusado">> ELSE <<>>)
                  \o (IF uniq < MIN_UNIQUENESS \/ blocks < MIN_UNIQUE_BLOCKS
                      THEN <<"yunikeudo">> ELSE <<>>)
                  \o <<"diversify">>

C36_BothConditionsListed ==
    /\ QualityRetry
    /\ loc.last_feedback.words = <<"yusado", "yunikeudo", "diversify">>

\* the documents the generator may hand to the loop for the case at hand
DocsFor(case_row) ==
    IF safe_mode(case_row) THEN {SafeTestDoc(case_row)} ELSE GenDocs

FallbackTaken == store # None /\ pc = "fallback"

\* C38 as stated: the code after the loop is unreachable when at least one
\* attempt is permitted, and it persists discarded with the reason
\* "max_attempts_exceeded".
C38_FallbackUnreachable ==
    FallbackTaken =>
        /\ loc.max_retries < 1
        /\ FallbackReason(loc) = Msg("max_attempts_exceeded", <<>>, <<>>)

\* C38 amended: with at least one attempt permitted the code after the loop
\* is reached exactly after a generator failure or a publish-step error of
\* the last permitted attempt, and discards with that failure's reason;
\* with no attempt permitted it discards with "max_retries_exceeded".
C38_FallbackAfterWriterOrRenderFailure ==
    /\ (FallbackTaken /\ loc.max_retries >= 1) =>
          /\ loc.attempt = loc.max_retries
          /\ FinalAttemptFailed
          /\ LastFailure \in {"writer_failed"} \cup PublishFailures
          /\ loc.last_feedback # EmptyMsg
          /\ FallbackReason(loc) = loc.last_feedback
          /\ loc.last_feedback.kind \in {"writer_failed", "render_error"}
    /\ (FallbackTaken /\ loc.max_retries < 1) =>
          /\ ~HasFailure
          /\ FallbackReason(loc) = Msg("max_retries_exceeded", <<>>, <<>>)
    /\ (store # None /\ pc = "generate" /\ HasFailure) => loc.attempt <= loc.max_retries
    /\ (RunEnded /\ FinalAttemptFailed
           /\ LastFailure \in {"writer_failed"} \cup PublishFailures) =>
          /\ pc = "returned"
          /\ result = Outcome("discarded", loc.last_feedback)

C38_FallbackAfterRenderError ==
    /\ FallbackTaken /\ loc.max_retries >= 2
    /\ LastFailure \in PublishFailures
    /\ FallbackReason(loc).kind = "render_error"

\* C40: suggest_new_cases terminates for every seed set, limit and existing
\* band counts: its selection loop reaches `limit` results or stops, also
\* when every band the seeds reach is at its maximum.
C40_SuggestTerminates == <>(plan.at = "done")

====
